---- MODULE Spec2Model ----
(***************************************************************************)
(* A model of the baby-smith trading agent (algo-traders-club/baby-smith). *)
(*                                                                         *)
(* The module holds six groups of state, read by these specifications:     *)
(*   SpecLoop   the two run loops (AgentSmith.run, TradingEngine.run),     *)
(*              their error counting, shutdown and interrupt handling;     *)
(*   SpecExec   the order executors (AgentSmith and OrderManager);         *)
(*   SpecBatch  the batch executor of AgentSmith with its rate limiter;    *)
(*   SpecStrat  the strategies' order construction, the position limit    *)
(*              check and the position reduction paths;                    *)
(*   SpecCycle  one cycle of TradingEngine and of AgentSmith.trading_loop; *)
(*   SpecGov    the rate-limit governor (RateLimitHandler) on its own;     *)
(*   SpecFetch  the snapshot providers (get_perp_market_state);            *)
(*   SpecMom    the momentum trade counter of MomentumAnalyzer over time;  *)
(*   SpecReduce the reductions of AgentSmith.trading_loop over time;       *)
(*   SpecRisk   DynamicRiskManager: limit check, trade history, validation;*)
(*   SpecTrack  the entry price tracking of PositionManager.                *)
(*                                                                         *)
(* Quantities are fixed point: a price is a number of cents, a size or a   *)
(* position a number of 1/2000 units (half a thousandth, so that a size    *)
(* rounded to 3 decimals and 1.5 times such a size are both integers).     *)
(***************************************************************************)
EXTENDS Integers, Sequences, FiniteSets, TLC

VARIABLES
    \* ---- run loops
    program,            \* which entry point runs: "agent" (main.py) or "engine"
    pc,                 \* position of the loop's single thread of control
    is_running,         \* TradingEngine.is_running / AgentSmith.running
    consecutive_errors, \* TradingEngine.consecutive_errors
    failStreak,         \* history: whole-cycle failures since the last successful cycle
    cycles,             \* history: cycles started so far
    interrupted,        \* history: the external interrupt (KeyboardInterrupt) was delivered
    cancelAllCalled,    \* history: a cancel-all was started during shutdown
    openOrders,         \* open orders of the asset found on the exchange at shutdown
    cancelRequests,     \* open orders for which a cancel was requested
    cancelRaised,       \* history: an exception was raised inside the cancel-all
    cancelErrLogged,    \* a failure of the cancel-all was logged
    escaped,            \* exception that left run(): "none" or its class
    \* ---- order executors
    now,                \* wall clock, in half seconds since the governor was built
    rl,                 \* the RateLimitHandler of the agent (its fields)
    last,               \* history: the latest executor call and its outcome
    \* ---- strategies
    position,           \* signed position of the account in the asset
    max_position,       \* TradingConfig.max_position
    start_position,     \* history: the position the run started with
    steps,              \* history: strategy operations made so far
    made,               \* history: the latest strategy operation and what it made
    \* ---- trading cycles
    cyc,                \* history: the latest trading cycle, or provider call, and what it did
    \* ---- throttles over time
    mom,                \* the MomentumAnalyzer's trade counter, and when momentum orders were made
    reducer,            \* the PositionReducer's timing fields, and when reductions were submitted
    \* ---- risk manager and position manager
    risk,               \* the DynamicRiskManager's trade history, and its latest answer
    tracker             \* the PositionManager's tracking fields, and its latest update

loopVars == <<program, pc, is_running, consecutive_errors, failStreak, cycles,
              interrupted, cancelAllCalled, openOrders, cancelRequests,
              cancelRaised, cancelErrLogged, escaped>>

execVars == <<now, rl, last>>

stratVars == <<position, max_position, start_position, steps, made>>

cycleVars == <<cyc>>

timedVars == <<mom, reducer>>

unitVars == <<risk, tracker>>

vars == <<loopVars, execVars, stratVars, cycleVars, timedVars, unitVars>>

(***************************************************************************)
(* Bounds of the model.                                                    *)
(***************************************************************************)
MaxCycles == 7
MaxOpenOrders == 2

(***************************************************************************)
(* Program constants.                                                      *)
(***************************************************************************)
max_consecutive_errors == 5

(***************************************************************************)
(* The run loops.                                                          *)
(***************************************************************************)
Programs == {"agent", "engine"}

LoopInit ==
    /\ program \in Programs
    /\ pc = "init"
    /\ is_running = FALSE
    /\ consecutive_errors = 0
    /\ failStreak = 0
    /\ cycles = 0
    /\ interrupted = FALSE
    /\ cancelAllCalled = FALSE
    /\ openOrders = 0
    /\ cancelRequests = 0
    /\ cancelRaised = FALSE
    /\ cancelErrLogged = FALSE
    /\ escaped = "none"

\* ---------------------------------------------------------------- engine

\* TradingEngine.run, up to the call of _setup_initial_state.
EngineRun ==
    /\ program = "engine" /\ pc = "init"
    /\ is_running' = TRUE
    /\ pc' = "setup"
    /\ UNCHANGED <<program, consecutive_errors, failStreak, cycles, interrupted,
                   cancelAllCalled, openOrders, cancelRequests, cancelRaised, cancelErrLogged, escaped>>
    /\ UNCHANGED <<execVars, stratVars, cycleVars, timedVars, unitVars>>

\* _setup_initial_state returns, or raises TradingException: run's handler
\* re-raises it as TradingException and the finally clause clears is_running.
EngineSetup ==
    /\ program = "engine" /\ pc = "setup"
    /\ \/ /\ pc' = "loop_head"
          /\ UNCHANGED <<is_running, escaped>>
       \/ /\ pc' = "exited"
          /\ is_running' = FALSE
          /\ escaped' = "TradingException"
    /\ UNCHANGED <<program, consecutive_errors, failStreak, cycles, interrupted,
                   cancelAllCalled, openOrders, cancelRequests, cancelRaised, cancelErrLogged>>
    /\ UNCHANGED <<execVars, stratVars, cycleVars, timedVars, unitVars>>

\* The while test of TradingEngine.trading_loop: a cycle starts while
\* is_running; otherwise the loop returns and run's finally clause runs.
EngineLoopHead ==
    /\ program = "engine" /\ pc = "loop_head"
    /\ IF is_running
         THEN /\ cycles < MaxCycles
              /\ pc' = "cycle"
              /\ cycles' = cycles + 1
              /\ UNCHANGED is_running
         ELSE /\ pc' = "exited"
              /\ is_running' = FALSE
              /\ UNCHANGED cycles
    /\ UNCHANGED <<program, consecutive_errors, failStreak, interrupted,
                   cancelAllCalled, openOrders, cancelRequests, cancelRaised, cancelErrLogged, escaped>>
    /\ UNCHANGED <<execVars, stratVars, cycleVars, timedVars, unitVars>>

\* A cycle whose snapshot is None (sleep 30, continue) or fails validation
\* (sleep 10, continue): the error counter is neither reset nor incremented.
EngineCycleSkipped ==
    /\ program = "engine" /\ pc = "cycle"
    /\ pc' = "sleep"
    /\ UNCHANGED <<program, is_running, consecutive_errors, failStreak, cycles,
                   interrupted, cancelAllCalled, openOrders, cancelRequests,
                   cancelRaised, cancelErrLogged, escaped>>
    /\ UNCHANGED <<execVars, stratVars, cycleVars, timedVars, unitVars>>

\* A cycle that runs to its end: the error counter is reset, then sleep 10.
EngineCycleOk ==
    /\ program = "engine" /\ pc = "cycle"
    /\ consecutive_errors' = 0
    /\ failStreak' = 0
    /\ pc' = "sleep"
    /\ UNCHANGED <<program, is_running, cycles, interrupted, cancelAllCalled,
                   openOrders, cancelRequests, cancelRaised, cancelErrLogged, escaped>>
    /\ UNCHANGED <<execVars, stratVars, cycleVars, timedVars, unitVars>>

\* What _handle_error decides from the incremented counter: stop, or back off.
HandleErrorStops(n) == n >= max_consecutive_errors

\* A cycle that raises (MarketDataException or any other Exception):
\* _handle_error counts it and either calls stop(), which clears is_running
\* and starts the cancel-all, or sleeps min(60, 5 * consecutive_errors).
EngineCycleRaises ==
    /\ program = "engine" /\ pc = "cycle"
    /\ consecutive_errors' = consecutive_errors + 1
    /\ failStreak' = failStreak + 1
    /\ IF HandleErrorStops(consecutive_errors + 1)
         THEN /\ is_running' = FALSE
              /\ cancelAllCalled' = TRUE
              /\ pc' = "cancelling"
              /\ \E n \in 0..MaxOpenOrders : openOrders' = n
         ELSE /\ pc' = "backoff"
              /\ UNCHANGED <<is_running, cancelAllCalled, openOrders>>
    /\ UNCHANGED <<program, cycles, interrupted, cancelRequests, cancelRaised, cancelErrLogged, escaped>>
    /\ UNCHANGED <<execVars, stratVars, cycleVars, timedVars, unitVars>>

\* The sleep between cycles, or the backoff sleep, ends.
EngineWake ==
    /\ program = "engine" /\ pc \in {"sleep", "backoff"}
    /\ pc' = "loop_head"
    /\ UNCHANGED <<program, is_running, consecutive_errors, failStreak, cycles,
                   interrupted, cancelAllCalled, openOrders, cancelRequests,
                   cancelRaised, cancelErrLogged, escaped>>
    /\ UNCHANGED <<execVars, stratVars, cycleVars, timedVars, unitVars>>

\* Results of exchange.cancel_all_orders as OrderManager.cancel_all_orders
\* sees them: status ok, another status, or an exception.
CancelResults == {"ok", "not_ok", "raise"}

\* OrderManager.cancel_all_orders: one call cancels every order of the asset;
\* an exception of the call is logged and re-raised as OrderExecutionException.
OM_CancelAllOrders(res) ==
    [cancelled |-> res = "ok",
     raised    |-> IF res = "raise" THEN "OrderExecutionException" ELSE "none"]

\* TradingEngine.stop after clearing is_running: the cancel-all inside
\* try/except Exception, an exception being logged and not raised.
StopMutNoCatch(res) ==
    [cancelled |-> OM_CancelAllOrders(res).cancelled,
     logged    |-> FALSE,
     escapes   |-> OM_CancelAllOrders(res).raised]
EngineStop(res) ==
    [cancelled |-> OM_CancelAllOrders(res).cancelled,
     logged    |-> OM_CancelAllOrders(res).raised # "none",
     escapes   |-> "none"]

\* stop() finishes; _handle_error returns to the loop, or the exception that
\* left stop() leaves the loop's handler and run() re-raises it.
EngineCancelDone ==
    /\ program = "engine" /\ pc = "cancelling"
    /\ \E res \in CancelResults :
         LET out == EngineStop(res) IN
           /\ cancelRequests' = IF out.cancelled THEN openOrders ELSE cancelRequests
           /\ cancelRaised' = (res = "raise")
           /\ cancelErrLogged' = out.logged
           /\ IF out.escapes = "none"
                THEN /\ pc' = "loop_head"
                     /\ UNCHANGED escaped
                ELSE /\ pc' = "exited"
                     /\ escaped' = "TradingException"
    /\ UNCHANGED <<program, is_running, consecutive_errors, failStreak, cycles,
                   interrupted, cancelAllCalled, openOrders>>
    /\ UNCHANGED <<execVars, stratVars, cycleVars, timedVars, unitVars>>

\* KeyboardInterrupt in TradingEngine.run: no handler below run catches it
\* (they catch Exception); run logs it and its finally clause clears
\* is_running. No cancel-all is made on this path.
EngineInterrupt ==
    /\ program = "engine"
    /\ pc \in {"setup", "loop_head", "cycle", "sleep", "backoff", "cancelling"}
    /\ ~interrupted
    /\ interrupted' = TRUE
    /\ is_running' = FALSE
    /\ pc' = "exited"
    /\ UNCHANGED <<program, consecutive_errors, failStreak, cycles, cancelAllCalled,
                   openOrders, cancelRequests, cancelRaised, cancelErrLogged, escaped>>
    /\ UNCHANGED <<execVars, stratVars, cycleVars, timedVars, unitVars>>

EngineNext ==
    \/ EngineRun
    \/ EngineSetup
    \/ EngineLoopHead
    \/ EngineCycleSkipped
    \/ EngineCycleOk
    \/ EngineCycleRaises
    \/ EngineWake
    \/ EngineCancelDone
    \/ EngineInterrupt

\* ----------------------------------------------------------------- agent

\* AgentSmith.run up to the while loop.
AgentRun ==
    /\ program = "agent" /\ pc = "init"
    /\ is_running' = TRUE
    /\ pc' = "loop_head"
    /\ UNCHANGED <<program, consecutive_errors, failStreak, cycles, interrupted,
                   cancelAllCalled, openOrders, cancelRequests, cancelRaised, cancelErrLogged, escaped>>
    /\ UNCHANGED <<execVars, stratVars, cycleVars, timedVars, unitVars>>

\* while self.running: nothing inside the loop clears the flag.
AgentLoopHead ==
    /\ program = "agent" /\ pc = "loop_head"
    /\ is_running
    /\ cycles < MaxCycles
    /\ pc' = "cycle"
    /\ cycles' = cycles + 1
    /\ UNCHANGED <<program, is_running, consecutive_errors, failStreak, interrupted,
                   cancelAllCalled, openOrders, cancelRequests, cancelRaised, cancelErrLogged, escaped>>
    /\ UNCHANGED <<execVars, stratVars, cycleVars, timedVars, unitVars>>

\* trading_loop returns without having raised; run sleeps 1 or 2 seconds.
AgentCycleOk ==
    /\ program = "agent" /\ pc = "cycle"
    /\ failStreak' = 0
    /\ pc' = "sleep"
    /\ UNCHANGED <<program, is_running, consecutive_errors, cycles, interrupted,
                   cancelAllCalled, openOrders, cancelRequests, cancelRaised, cancelErrLogged, escaped>>
    /\ UNCHANGED <<execVars, stratVars, cycleVars, timedVars, unitVars>>

\* The cycle raises: trading_loop's catch-all (or run's except Exception)
\* logs it and sleeps 5 seconds. Nothing is counted, and the loop goes on.
AgentCycleRaises ==
    /\ program = "agent" /\ pc = "cycle"
    /\ failStreak' = failStreak + 1
    /\ pc' = "sleep"
    /\ UNCHANGED <<program, is_running, consecutive_errors, cycles, interrupted,
                   cancelAllCalled, openOrders, cancelRequests, cancelRaised, cancelErrLogged, escaped>>
    /\ UNCHANGED <<execVars, stratVars, cycleVars, timedVars, unitVars>>

AgentWake ==
    /\ program = "agent" /\ pc = "sleep"
    /\ pc' = "loop_head"
    /\ UNCHANGED <<program, is_running, consecutive_errors, failStreak, cycles,
                   interrupted, cancelAllCalled, openOrders, cancelRequests,
                   cancelRaised, cancelErrLogged, escaped>>
    /\ UNCHANGED <<execVars, stratVars, cycleVars, timedVars, unitVars>>

\* KeyboardInterrupt in AgentSmith.run: the inner handler breaks out of the
\* loop (the outer one catches it when it arrives inside a handler); the
\* finally clause clears running and calls cancel_all_orders.
AgentInterrupt ==
    /\ program = "agent"
    /\ pc \in {"loop_head", "cycle", "sleep"}
    /\ ~interrupted
    /\ interrupted' = TRUE
    /\ is_running' = FALSE
    /\ cancelAllCalled' = TRUE
    /\ pc' = "cancelling"
    /\ \E n \in 0..MaxOpenOrders : openOrders' = n
    /\ UNCHANGED <<program, consecutive_errors, failStreak, cycles, cancelRequests,
                   cancelRaised, cancelErrLogged, escaped>>
    /\ UNCHANGED <<execVars, stratVars, cycleVars, timedVars, unitVars>>

\* The for loop of AgentSmith.cancel_all_orders over the open orders of the
\* asset, results[i] being the result of exchange.cancel for the i-th one.
\* A cancel that raises ends the loop in the handler. So does the first
\* cancel with status ok: the next line reads self.current_orders, an
\* attribute AgentSmith never sets, and the AttributeError is caught by the
\* same handler. Only a cancel with another status lets the loop go on.
RECURSIVE AS_CancelLoop(_, _)
AS_CancelLoop(results, i) ==
    IF i > Len(results)
      THEN [requests |-> Len(results), error |-> "none"]
      ELSE IF results[i] = "not_ok"
             THEN AS_CancelLoop(results, i + 1)
             ELSE [requests |-> i,
                   error    |-> IF results[i] = "ok" THEN "AttributeError"
                                                     ELSE "cancel_raised"]

\* AgentSmith.cancel_all_orders: the open-orders query, then the loop, all
\* inside try/except Exception (logged, never raised).
AS_CancelAllOrders(queryRaises, results) ==
    IF queryRaises
      THEN [requests |-> 0, error |-> "query_raised", logged |-> TRUE]
      ELSE LET r == AS_CancelLoop(results, 1) IN
             [requests |-> r.requests, error |-> r.error, logged |-> r.error # "none"]

AgentCancelDone ==
    /\ program = "agent" /\ pc = "cancelling"
    /\ \E queryRaises \in BOOLEAN, results \in [1..openOrders -> CancelResults] :
         LET out == AS_CancelAllOrders(queryRaises, results) IN
           /\ cancelRequests' = out.requests
           /\ cancelRaised' = (out.error # "none")
           /\ cancelErrLogged' = out.logged
    /\ pc' = "exited"
    /\ UNCHANGED <<program, is_running, consecutive_errors, failStreak, cycles,
                   interrupted, cancelAllCalled, openOrders, escaped>>
    /\ UNCHANGED <<execVars, stratVars, cycleVars, timedVars, unitVars>>

AgentNext ==
    \/ AgentRun
    \/ AgentLoopHead
    \/ AgentCycleOk
    \/ AgentCycleRaises
    \/ AgentWake
    \/ AgentInterrupt
    \/ AgentCancelDone

LoopNext == EngineNext \/ AgentNext

(***************************************************************************)
(* Fixed-point arithmetic.                                                 *)
(***************************************************************************)
Abs(x) == IF x < 0 THEN -x ELSE x

Max(a, b) == IF a >= b THEN a ELSE b

Min(a, b) == IF a <= b THEN a ELSE b

\* A size given in thousandths, a price given in cents, a time in seconds.
Size(thousandths) == 2 * thousandths

Secs(s) == 2 * s

\* A notional (size times price) of t tenths of a dollar, in the unit of the
\* product of a size and a price: 12.0 is NotionalTenths(120).
NotionalTenths(t) == t * 20000

Pow10(d) == CASE d = 0 -> 1 [] d = 1 -> 10 [] d = 2 -> 100 [] d = 3 -> 1000

\* round(n / d) for n >= 0 and d > 0. Python rounds the binary float, so that
\* an exact tie falls to the even neighbour; the model rounds the exact
\* quotient in the same way.
RoundHalfEven(n, d) ==
    LET q == n \div d
        r == n % d
    IN  IF 2 * r < d THEN q
        ELSE IF 2 * r > d THEN q + 1
        ELSE IF q % 2 = 0 THEN q ELSE q + 1

\* round(n / d, decimals) as a size, for an asset of at most 3 size decimals.
RoundSize(n, d, decimals) ==
    RoundHalfEven(n * Pow10(decimals), d) * (2000 \div Pow10(decimals))

\* round(size, 3) == size: a size is a whole number of thousandths.
IsRounded3(size) == size % 2 = 0

(***************************************************************************)
(* RateLimitHandler (rate_limit.py).                                       *)
(***************************************************************************)

\* The methods the class defines.
RateLimitHandlerMethods ==
    {"get_slippage", "check_rate_limits", "on_request", "on_success",
     "get_order_params", "on_rate_limit_error", "adjust_for_rate_limits",
     "get_wait_time", "get_status", "can_trade"}

\* Calling a method the class does not define raises AttributeError.
HandlerHas(method) == method \in RateLimitHandlerMethods

\* pause_until = None
NoPause == -1

\* __init__ at time t. last_success_time and severe_mode_until are written
\* but read by nothing the model covers, and are left out.
RL_New(t) ==
    [request_count        |-> 0,
     last_request_time    |-> t,
     pause_until          |-> NoPause,
     consecutive_fails    |-> 0,
     min_wait_time        |-> Secs(1),
     requests_this_minute |-> 0,
     minute_start_time    |-> t,
     rate_limit_hits      |-> 0,
     volume_traded        |-> 0,
     severe_mode          |-> FALSE]

\* get_slippage, in tenths of a percent.
RL_GetSlippage(h) ==
    IF h.consecutive_fails > 2 \/ h.severe_mode THEN 20
    ELSE IF h.consecutive_fails > 0 THEN 15
    ELSE 10

\* The per-minute ceiling check_rate_limits and can_trade compare with.
PerMinuteLimit == 1000

\* The length of the minute window, in seconds.
MinuteWindowSecs == 60

\* can_trade at time t: the reason of a refusal, or "OK".
RL_CanTrade(h, t) ==
    IF h.pause_until # NoPause /\ t < h.pause_until THEN "Rate limit pause"
    ELSE IF t - h.last_request_time < h.min_wait_time THEN "Minimum wait not met"
    ELSE IF h.requests_this_minute >= PerMinuteLimit THEN "Per-minute limit reached"
    ELSE "OK"

\* on_success with a decay of min_wait_time that has no floor.
RL_OnSuccessMutNoFloor(h, volume) ==
    [h EXCEPT !.consecutive_fails = 0,
              !.volume_traded = IF volume > 0 THEN @ + volume ELSE @,
              !.min_wait_time = @ - 1,
              !.severe_mode = FALSE]

\* on_success(volume)
RL_OnSuccess(h, volume) ==
    [h EXCEPT !.consecutive_fails = 0,
              !.volume_traded = IF volume > 0 THEN @ + volume ELSE @,
              !.min_wait_time = IF @ > Secs(1) THEN Max(Secs(1), @ - 1) ELSE @,
              !.severe_mode = FALSE]

\* get_order_params: the order type and the builder (priority fee) marker
\* the governor recommends: add-liquidity-only without builder in normal
\* operation, immediate-or-cancel with builder after a failure or in severe mode.
RL_GetOrderParams(h) ==
    LET aggressive == h.consecutive_fails > 0 \/ h.severe_mode IN
      [tif |-> IF aggressive THEN "Ioc" ELSE "Alo", builder |-> aggressive]

\* The pause without its cap of 30 s.
RL_PauseSecsMutNoCap(n) ==
    IF n <= 2 THEN 5
    ELSE IF n <= 4 THEN 15
    ELSE 5 * n

\* The pause on_rate_limit_error chooses after the n-th consecutive failure.
RL_PauseSecs(n) ==
    IF n <= 2 THEN 5
    ELSE IF n <= 4 THEN 15
    ELSE Min(30, 5 * n)

\* on_rate_limit_error at time t
RL_OnRateLimitError(h, t) ==
    [h EXCEPT !.consecutive_fails = @ + 1,
              !.rate_limit_hits = @ + 1,
              !.pause_until = t + Secs(RL_PauseSecs(h.consecutive_fails + 1))]

\* on_request at time t
RL_OnRequest(h, t) ==
    [h EXCEPT !.last_request_time = t,
              !.request_count = @ + 1,
              !.requests_this_minute = @ + 1]

\* The first lines of check_rate_limits: a minute window that is 60 s old
\* or older is replaced by an empty one that starts at t.
RL_ResetMinute(h, t) ==
    IF t - h.minute_start_time >= Secs(MinuteWindowSecs)
    THEN [h EXCEPT !.requests_this_minute = 0, !.minute_start_time = t]
    ELSE h

\* check_rate_limits at time t: the handler it leaves and the reason of a
\* refusal, or "OK".
RL_CheckRateLimits(h, t) ==
    LET g == RL_ResetMinute(h, t) IN
    [h      |-> g,
     answer |-> IF g.pause_until # NoPause /\ t < g.pause_until
                    THEN "Rate limit pause"
                ELSE IF t - g.last_request_time < g.min_wait_time
                    THEN "Minimum wait not met"
                ELSE IF g.requests_this_minute >= PerMinuteLimit
                    THEN "Per-minute limit reached"
                ELSE "OK"]

(***************************************************************************)
(* The order executors: AgentSmith (agent.py) and OrderManager             *)
(* (core/order_manager.py).                                                *)
(***************************************************************************)

\* trading_types.Order
Order(size, price, side, reduce_only) ==
    [size |-> size, price |-> price, side |-> side, reduce_only |-> reduce_only,
     post_only |-> TRUE]

\* An Order built with post_only=False.
TakerOrder(size, price, side, reduce_only) ==
    [size |-> size, price |-> price, side |-> side, reduce_only |-> reduce_only,
     post_only |-> FALSE]

\* The orders the callers pass in: 0.05, 0.124 or 1.0 to buy at 96, 100 or
\* 120 dollars, 0.1245 to buy at 100, and 1.0 to sell, reduce-only, at 100 or
\* 108; the mark price is 100 dollars.
Orders ==
    {Order(s, p, "BUY", FALSE) : s \in {100, 248, 2000}, p \in {9600, 10000, 12000}}
    \cup {Order(249, 10000, "BUY", FALSE)}
    \cup {Order(2000, p, "SELL", TRUE) : p \in {10000, 10800}}

Marks == {10000}

\* What the exchange answers: the fills query gives a list of some length or
\* raises; a submission is accepted (status ok), refused, or raises.
FillCounts == {0, 10, 11}

FillsAnswers == FillCounts \cup {-1}

Raised(fills) == fills = -1

SubmitAnswers == {"ok", "error", "rate_limited", "raise"}

\* The message of an answer whose status is not ok: str(response), which for
\* the exchange's rate limit answer is its rate limit message.
ErrorMsg(res) == IF res = "rate_limited" THEN "rate limited" ELSE "error response"

\* The newest fill of the account: 1.0 at 50 dollars, or 0.127 at 100.
NewestFills == {[sz |-> 2000, px |-> 5000], [sz |-> 254, px |-> 10000]}

\* OrderManager.validate_order
OM_ValidateOrder(order, current_price) ==
    IF order.size <= 0 THEN FALSE
    ELSE IF order.price <= 0 THEN FALSE
    ELSE IF order.size * order.price < NotionalTenths(120) THEN FALSE
    ELSE IF current_price = 0 THEN FALSE
    ELSE IF Abs(order.price - current_price) * 10 > current_price THEN FALSE
    ELSE TRUE

\* AgentSmith.validate_order: the value is taken at the current price, the
\* deviation bound is 5%, and the size must be rounded to 3 decimals.
AS_ValidateOrder(order, current_price) ==
    IF order.size * current_price < NotionalTenths(120) THEN FALSE
    ELSE IF Abs(order.price - current_price) * 20 > current_price THEN FALSE
    ELSE IF ~IsRounded3(order.size) THEN FALSE
    ELSE TRUE

\* AgentSmith.calculate_valid_size(price, min_value, size_decimals), min_value
\* in tenths of a dollar: round((min_value / price) * 1.05, size_decimals),
\* at least 0.001.
AS_CalculateValidSize(price, min_value, size_decimals) ==
    IF price > 0
      THEN Max(RoundSize(min_value * 21, 2 * price, size_decimals), Size(1))
      ELSE Size(1)

\* AgentSmith.validate_and_adjust_order, for an asset of 3 size decimals: the
\* order's size is replaced by the valid size at the mark price, and the order
\* is refused only when that size at the order's price is worth less than 12.
AS_ValidateAndAdjustOrder(order, mark_price) ==
    LET size == AS_CalculateValidSize(mark_price, 121, 3) IN
      IF size * order.price < NotionalTenths(120)
        THEN [valid |-> FALSE, order |-> order]
        ELSE [valid |-> TRUE,
              order |-> Order(size, order.price, order.side, order.reduce_only)]

\* The comparisons of the two fills counts.
AS_FillDetectedMutGeq(new_fill_count, initial_fill_count) ==
    new_fill_count >= initial_fill_count

AS_FillDetected(new_fill_count, initial_fill_count) ==
    new_fill_count > initial_fill_count

OM_FillDetected(new_fill_count, initial_fill_count) ==
    new_fill_count > initial_fill_count

AS_NoNewFill(new_len, initial_len) ==
    new_len <= initial_len

NoFill == [sz |-> 0, px |-> 0]

\* The outcome of an executor for one order: what it returned (success, msg,
\* fill_value), the remote calls it made for the order, in order, the two
\* fills counts it read (-1 when not read), what it submitted, the exception
\* that left it, the seconds it slept, and the newest fill when it read it.
NoSubmit ==
    [call |-> "none", sz |-> 0, is_buy |-> FALSE, reduce_only |-> FALSE, limit_px |-> 0]

Outcome(order, success, msg, fill_value, remote, before, after, submitted, raised, slept) ==
    [order |-> order, success |-> success, msg |-> msg, fill_value |-> fill_value,
     remote |-> remote, before |-> before, after |-> after,
     submitted |-> submitted, raised |-> raised, slept |-> slept,
     newest |-> NoFill]

\* The outcome of a call that read the newest fill.
Read(outcome, newest) == [outcome EXCEPT !.newest = newest]

\* An order-less call (the two fill verifications take no order).
NoOrder == Order(0, 0, "BUY", FALSE)

\* The exchange.order call of AgentSmith.execute_and_verify_order. The limit
\* price, order.price * (1 +- 0.0005), is kept in millionths of a dollar.
AS_IocSubmit(order) ==
    [call |-> "order", sz |-> order.size, is_buy |-> order.side = "BUY",
     reduce_only |-> order.reduce_only,
     limit_px |-> IF order.side = "BUY" THEN order.price * 10005
                                        ELSE order.price * 9995]

\* AgentSmith.execute_and_verify_order(order, market_state), q1 and q2 being
\* the answers to the fills query before and after the submission, res the
\* answer to the submission and newest the first entry of the second list.
\* With an increased count the function calls rate_limit_handler
\* .on_fill_success, which RateLimitHandler does not define: the
\* AttributeError is caught by the function's handler and returned as failure.
AS_ExecuteAndVerifyOrder(order, mark, q1, res, q2, newest) ==
    IF ~AS_ValidateOrder(order, mark)
      THEN Outcome(order, FALSE, "Order validation failed", 0, <<>>, -1, -1,
                   NoSubmit, "none", 0)
    ELSE IF Raised(q1)
      THEN Outcome(order, FALSE, "exception", 0, <<"user_fills">>, -1, -1,
                   NoSubmit, "none", 0)
    ELSE IF res = "raise"
      THEN Outcome(order, FALSE, "exception", 0, <<"user_fills", "order">>, q1, -1,
                   AS_IocSubmit(order), "none", 0)
    ELSE IF res # "ok"
      THEN Outcome(order, FALSE, ErrorMsg(res), 0, <<"user_fills", "order">>, q1, -1,
                   AS_IocSubmit(order), "none", 0)
    ELSE IF Raised(q2)
      THEN Outcome(order, FALSE, "exception", 0, <<"user_fills", "order", "user_fills">>,
                   q1, -1, AS_IocSubmit(order), "none", 1)
    ELSE IF AS_FillDetected(q2, q1)
      THEN IF q2 = 0
             THEN Outcome(order, FALSE, "exception", 0,
                          <<"user_fills", "order", "user_fills">>,
                          q1, q2, AS_IocSubmit(order), "none", 1)
           ELSE IF HandlerHas("on_fill_success")
             THEN Read(Outcome(order, TRUE, "Fill confirmed", newest.sz * newest.px,
                               <<"user_fills", "order", "user_fills">>,
                               q1, q2, AS_IocSubmit(order), "none", 1), newest)
             ELSE Read(Outcome(order, FALSE, "AttributeError", 0,
                               <<"user_fills", "order", "user_fills">>,
                               q1, q2, AS_IocSubmit(order), "none", 1), newest)
      ELSE Outcome(order, FALSE, "No fill detected", 0,
                   <<"user_fills", "order", "user_fills">>,
                   q1, q2, AS_IocSubmit(order), "none", 1)

\* The order type and builder marker AgentSmith.execute_and_verify_order
\* passes to exchange.order: it reads get_order_params into params and then
\* passes the literals, whatever the governor h recommended.
AS_OrderParams(h) == [tif |-> "Ioc", builder |-> TRUE]

\* AgentSmith.verify_order_fill(initial_fills, result, expected_size), called
\* after a submission that answered res: (False, 0.0) unless the status is ok
\* and the new list is longer than the initial one.
AS_VerifyOrderFill(order, initial_len, res, q2, newest) ==
    IF res # "ok"
      THEN Outcome(order, FALSE, "none", 0, <<>>, initial_len, -1, NoSubmit, "none", 0)
    ELSE IF Raised(q2)
      THEN Outcome(order, FALSE, "none", 0, <<"user_fills">>, initial_len, -1,
                   NoSubmit, "none", 1)
    ELSE IF AS_NoNewFill(q2, initial_len)
      THEN Outcome(order, FALSE, "none", 0, <<"user_fills">>, initial_len, q2,
                   NoSubmit, "none", 1)
    ELSE IF q2 = 0
      THEN Outcome(order, FALSE, "none", 0, <<"user_fills">>, initial_len, q2,
                   NoSubmit, "none", 1)
      ELSE Read(Outcome(order, TRUE, "none", newest.sz * newest.px, <<"user_fills">>,
                        initial_len, q2, NoSubmit, "none", 1), newest)

\* OrderManager._check_rate_limits: the call of rate_limit_handler
\* .can_place_order, a method RateLimitHandler does not define, raises
\* AttributeError; the handler logs it and returns False.
OM_CheckRateLimits == HandlerHas("can_place_order")

\* OrderManager._execute_order: market_close for a reduce-only order,
\* market_open otherwise; an exception of the call is returned as a failure.
OM_MarketSubmit(order) ==
    [call |-> IF order.reduce_only THEN "market_close" ELSE "market_open",
     sz |-> order.size, is_buy |-> order.side = "BUY",
     reduce_only |-> order.reduce_only, limit_px |-> 0]

\* OrderManager._verify_order_fill(initial_fill_count), q2 being the answer
\* to its fills query: (success, msg, fill_value).
OM_VerifyOrderFill(initial_fill_count, q2, newest) ==
    IF Raised(q2) THEN [success |-> FALSE, msg |-> "exception", fill_value |-> 0, newest |-> NoFill]
    ELSE IF OM_FillDetected(q2, initial_fill_count)
      THEN IF q2 = 0
             THEN [success |-> FALSE, msg |-> "exception", fill_value |-> 0,
                   newest |-> NoFill]
             ELSE [success |-> TRUE, msg |-> "Fill confirmed",
                   fill_value |-> newest.sz * newest.px, newest |-> newest]
      ELSE [success |-> FALSE, msg |-> "No fill detected", fill_value |-> 0,
            newest |-> NoFill]

\* OrderManager.execute_and_verify_order. Whatever is raised inside the try
\* block, the RateLimitException of a refused rate check included, is logged
\* and raised again as OrderExecutionException.
OM_ExecuteAndVerifyOrder(order, mark, q1, res, q2, newest) ==
    IF ~OM_ValidateOrder(order, mark)
      THEN Outcome(order, FALSE, "Order validation failed", 0, <<>>, -1, -1,
                   NoSubmit, "none", 0)
    ELSE IF ~OM_CheckRateLimits
      THEN Outcome(order, FALSE, "none", 0, <<>>, -1, -1,
                   NoSubmit, "OrderExecutionException", 0)
    ELSE IF Raised(q1)
      THEN Outcome(order, FALSE, "none", 0, <<"user_fills">>, -1, -1,
                   NoSubmit, "OrderExecutionException", 0)
    ELSE IF res # "ok"
      THEN Outcome(order, FALSE, IF res = "raise" THEN "exception" ELSE ErrorMsg(res),
                   0, <<"user_fills", OM_MarketSubmit(order).call>>, q1, -1,
                   OM_MarketSubmit(order), "none", 0)
      ELSE LET v == OM_VerifyOrderFill(q1, q2, newest) IN
             Read(Outcome(order, v.success, v.msg, v.fill_value,
                          <<"user_fills", OM_MarketSubmit(order).call, "user_fills">>,
                          q1, IF Raised(q2) THEN -1 ELSE q2,
                          OM_MarketSubmit(order), "none", 1), v.newest)

\* OrderManager.execute_single_order: validation, then market_open whatever
\* the order's reduce_only; nothing is raised.
OM_ExecuteSingleOrder(order, mark, res) ==
    IF ~OM_ValidateOrder(order, mark)
      THEN Outcome(order, FALSE, "Order validation failed", 0, <<>>, -1, -1,
                   NoSubmit, "none", 0)
      ELSE Outcome(order, res = "ok",
                   CASE res = "ok" -> "Order executed"
                     [] res \in {"error", "rate_limited"} -> ErrorMsg(res)
                     [] OTHER -> "exception",
                   0, <<"market_open">>, -1, -1,
                   [call |-> "market_open", sz |-> order.size,
                    is_buy |-> order.side = "BUY", reduce_only |-> FALSE,
                    limit_px |-> 0],
                   "none", 0)

\* OrderManager.execute_perp_orders: _get_current_market_state is a
\* placeholder that returns None, so that every order is skipped ("Failed to
\* get market state"); no remote call is made and nothing is raised.
OM_ExecutePerpOrders(orders) ==
    [i \in 1..Len(orders) |->
        Outcome(orders[i], FALSE, "no market state", 0, <<>>, -1, -1,
                NoSubmit, "none", 0)]

\* Answers to the market_open of AgentSmith.execute_perp_orders: status ok
\* with a fill, status ok with an order error, the exchange's rate limit
\* message, any other answer, or an exception.
PerpAnswers ==
    {[kind |-> "filled", fill |-> f] : f \in NewestFills} \cup
    {[kind |-> k, fill |-> NoFill] : k \in {"order_error", "rate_limited", "unknown", "raise"}}

\* The for loop of AgentSmith.execute_perp_orders from the i-th order on, st
\* holding the governor, the clock and the outcomes so far. An order that
\* fails validate_and_adjust_order is skipped; the others are submitted with
\* market_open at the adjusted size. A fill goes to on_success; the rate limit
\* message goes to on_rate_limit_error and ends the loop; an exception is
\* logged and the loop goes on. The loop sleeps 1 second after an order that
\* neither raised nor was skipped.
RECURSIVE AS_PerpLoop(_, _, _, _, _)
AS_PerpLoop(orders, answers, mark, i, st) ==
    IF i > Len(orders) THEN st
    ELSE
      LET adj == AS_ValidateAndAdjustOrder(orders[i], mark)
          sub == [call |-> "market_open", sz |-> adj.order.size,
                  is_buy |-> adj.order.side = "BUY", reduce_only |-> FALSE,
                  limit_px |-> 0]
          a == answers[i]
          skipped == Outcome(orders[i], FALSE, "Order validation failed", 0, <<>>,
                             -1, -1, NoSubmit, "none", 0)
          done(success, msg, value) ==
              Outcome(orders[i], success, msg, value, <<"market_open">>, -1, -1,
                      sub, "none", 0)
      IN
        IF ~adj.valid
          THEN AS_PerpLoop(orders, answers, mark, i + 1,
                           [st EXCEPT !.items = Append(@, skipped)])
        ELSE IF a.kind = "raise"
          THEN AS_PerpLoop(orders, answers, mark, i + 1,
                           [st EXCEPT !.items = Append(@, done(FALSE, "exception", 0))])
        ELSE IF a.kind = "filled"
          THEN AS_PerpLoop(orders, answers, mark, i + 1,
                           [st EXCEPT !.rl = RL_OnSuccess(@, a.fill.sz * a.fill.px),
                                      !.now = @ + Secs(1),
                                      !.items = Append(@, done(TRUE, "filled",
                                                               a.fill.sz * a.fill.px))])
        ELSE IF a.kind = "rate_limited"
          THEN [st EXCEPT !.rl = RL_OnRateLimitError(@, st.now),
                          !.items = Append(@, done(FALSE, "rate limited", 0))]
          ELSE AS_PerpLoop(orders, answers, mark, i + 1,
                           [st EXCEPT !.now = @ + Secs(1),
                                      !.items = Append(@, done(FALSE, a.kind, 0))])

\* AgentSmith.execute_perp_orders(orders): nothing is done without orders,
\* when can_trade refuses, or when get_perp_market_state returns None (mark
\* = 0 here); nothing is raised.
AS_ExecutePerpOrders(orders, answers, mark, h, t) ==
    IF Len(orders) = 0 THEN [rl |-> h, now |-> t, items |-> <<>>, blocked |-> "no orders"]
    ELSE IF RL_CanTrade(h, t) # "OK"
      THEN [rl |-> h, now |-> t, items |-> <<>>, blocked |-> RL_CanTrade(h, t)]
    ELSE IF mark = 0
      THEN [rl |-> h, now |-> t, items |-> <<>>, blocked |-> "no market state"]
      ELSE AS_PerpLoop(orders, answers, mark, 1,
                       [rl |-> h, now |-> t, items |-> <<>>, blocked |-> "none"])

\* ------------------------------------------------------- executor actions

MaxTime == 12
MaxBatch == 2

NoCall == [op |-> "none", mark |-> 0, items |-> <<>>, blocked |-> "none"]

Called(op, mark, items, blocked) ==
    [op |-> op, mark |-> mark, items |-> items, blocked |-> blocked]

ExecInit ==
    /\ now = 0
    /\ rl = RL_New(0)
    /\ last = NoCall

CallAS_ExecuteAndVerifyOrder ==
    /\ \E order \in Orders, mark \in Marks, q1 \in FillsAnswers,
          res \in SubmitAnswers, q2 \in FillsAnswers, newest \in NewestFills :
         LET out == AS_ExecuteAndVerifyOrder(order, mark, q1, res, q2, newest) IN
           /\ now + Secs(out.slept) <= MaxTime
           /\ last' = Called("AgentSmith.execute_and_verify_order", mark, <<out>>, "none")
           /\ now' = now + Secs(out.slept)
    /\ UNCHANGED rl
    /\ UNCHANGED <<loopVars, stratVars, cycleVars, timedVars, unitVars>>

CallAS_VerifyOrderFill ==
    /\ \E initial_len \in FillCounts, res \in SubmitAnswers \ {"raise"},
          q2 \in FillsAnswers, newest \in NewestFills :
         LET out == AS_VerifyOrderFill(NoOrder, initial_len, res, q2, newest) IN
           /\ now + Secs(out.slept) <= MaxTime
           /\ last' = Called("AgentSmith.verify_order_fill", 0, <<out>>, "none")
           /\ now' = now + Secs(out.slept)
    /\ UNCHANGED rl
    /\ UNCHANGED <<loopVars, stratVars, cycleVars, timedVars, unitVars>>

CallOM_ExecuteAndVerifyOrder ==
    /\ \E order \in Orders, mark \in Marks, q1 \in FillsAnswers,
          res \in SubmitAnswers, q2 \in FillsAnswers, newest \in NewestFills :
         LET out == OM_ExecuteAndVerifyOrder(order, mark, q1, res, q2, newest) IN
           /\ now + Secs(out.slept) <= MaxTime
           /\ last' = Called("OrderManager.execute_and_verify_order", mark, <<out>>, "none")
           /\ now' = now + Secs(out.slept)
    /\ UNCHANGED rl
    /\ UNCHANGED <<loopVars, stratVars, cycleVars, timedVars, unitVars>>

CallOM_VerifyOrderFill ==
    /\ \E initial_fill_count \in FillCounts, q2 \in FillsAnswers, newest \in NewestFills :
         LET v == OM_VerifyOrderFill(initial_fill_count, q2, newest) IN
           last' = Called("OrderManager._verify_order_fill", 0,
                          <<Read(Outcome(NoOrder, v.success, v.msg, v.fill_value,
                                         <<"user_fills">>, initial_fill_count,
                                         IF Raised(q2) THEN -1 ELSE q2,
                                         NoSubmit, "none", 0), v.newest)>>,
                          "none")
    /\ UNCHANGED <<now, rl>>
    /\ UNCHANGED <<loopVars, stratVars, cycleVars, timedVars, unitVars>>

CallOM_ExecuteSingleOrder ==
    /\ \E order \in Orders, mark \in Marks, res \in SubmitAnswers :
         last' = Called("OrderManager.execute_single_order", mark,
                        <<OM_ExecuteSingleOrder(order, mark, res)>>, "none")
    /\ UNCHANGED <<now, rl>>
    /\ UNCHANGED <<loopVars, stratVars, cycleVars, timedVars, unitVars>>

\* The orders of a batch: 0.05 at 100 dollars, or 1.0 at 50, to buy.
BatchOrders == {Order(100, 10000, "BUY", FALSE), Order(2000, 5000, "BUY", FALSE)}

SeqsUpTo(S, n) == UNION {[1..k -> S] : k \in 0..n}

CallOM_ExecutePerpOrders ==
    /\ \E orders \in SeqsUpTo(BatchOrders, MaxBatch) :
         last' = Called("OrderManager.execute_perp_orders", 0,
                        OM_ExecutePerpOrders(orders), "none")
    /\ UNCHANGED <<now, rl>>
    /\ UNCHANGED <<loopVars, stratVars, cycleVars, timedVars, unitVars>>

ExecNext ==
    \/ CallAS_ExecuteAndVerifyOrder
    \/ CallAS_VerifyOrderFill
    \/ CallOM_ExecuteAndVerifyOrder
    \/ CallOM_VerifyOrderFill
    \/ CallOM_ExecuteSingleOrder
    \/ CallOM_ExecutePerpOrders

\* ------------------------------------- the batch executor and its governor

\* Time passes between two calls.
Tick ==
    /\ \E d \in {Secs(1), Secs(5)} :
         /\ now + d <= MaxTime
         /\ now' = now + d
    /\ UNCHANGED <<rl, last>>
    /\ UNCHANGED <<loopVars, stratVars, cycleVars, timedVars, unitVars>>

\* get_perp_market_state returns a state with the mark price, or None (0).
CallAS_ExecutePerpOrders ==
    /\ \E orders \in SeqsUpTo(BatchOrders, MaxBatch), mark \in Marks \cup {0} :
         \E answers \in [1..Len(orders) -> PerpAnswers] :
           LET st == AS_ExecutePerpOrders(orders, answers, mark, rl, now) IN
             /\ st.now <= MaxTime
             /\ last' = Called("AgentSmith.execute_perp_orders", mark, st.items, st.blocked)
             /\ now' = st.now
             /\ rl' = st.rl
    /\ UNCHANGED <<loopVars, stratVars, cycleVars, timedVars, unitVars>>

BatchNext ==
    \/ Tick
    \/ CallAS_ExecutePerpOrders

(***************************************************************************)
(* Strategies: EnhancedPerpMarketMaker (strategies/enhanced_market_maker), *)
(* DynamicRiskManager (strategies/risk_manager), AggressiveMarketMaker     *)
(* (strategies/market_maker), PositionReducer (strategies/position_reducer)*)
(* and AgentSmith.calculate_orders (agent.py).                             *)
(*                                                                         *)
(* Mark prices are whole cents.  The marks given to calculate_orders of    *)
(* AgentSmith, which derives a price from the mark (a factor of 0.998 or   *)
(* 1.002), are multiples of five dollars, so that the derived price is a   *)
(* whole number of cents.                                                  *)
(***************************************************************************)
MaxSteps == 3

\* Attributes that the constructors of the two strategy classes (and of their
\* base class PerpStrategy) assign.  Neither assigns `exchange`.
StrategyAttributes ==
    {"config", "volatility_window", "price_history", "min_spread",
     "base_position", "max_position", "min_order_interval", "min_notional",
     "min_size", "risk_manager", "momentum_analyzer", "last_order_time",
     "position_entry_price", "current_position"}

StrategyHas(attr) == attr \in StrategyAttributes

\* What a strategy operation hands to the exchange: nothing.
NoRequests == <<>>

\* A request for exchange.order(...) and one for exchange.market_close(...);
\* market_close names no side: the exchange closes against the position.
IocRequest(sz, is_buy, limit_px) ==
    [call |-> "order", sz |-> sz, side |-> IF is_buy THEN "BUY" ELSE "SELL",
     reduce_only |-> TRUE, px |-> limit_px]

MarketCloseRequest(sz, mark) ==
    [call |-> "market_close", sz |-> sz, side |-> "closing",
     reduce_only |-> TRUE, px |-> mark]

\* ------------------------------------------------------ DynamicRiskManager
\* _is_reducing_position that asks the order to fit into the position.
RM_IsReducingPositionMutFits(current_position, size, is_buy) ==
    \/ current_position > 0 /\ ~is_buy /\ size <= current_position
    \/ current_position < 0 /\ is_buy /\ size <= -current_position

RM_IsReducingPosition(current_position, size, is_buy) ==
    \/ current_position > 0 /\ ~is_buy
    \/ current_position < 0 /\ is_buy

RM_CheckPositionLimits(current_position, size, is_buy, config_max_position) ==
    IF RM_IsReducingPosition(current_position, size, is_buy) THEN TRUE
    ELSE LET new_position == current_position + (IF is_buy THEN size ELSE -size)
         IN  ~(Abs(new_position) > config_max_position)

\* ----------------------------------------------------------- order_utils
\* The table of get_size_decimals, for the assets the model runs.
OU_GetSizeDecimals(asset) ==
    CASE asset = "BTC" -> 4
      [] asset = "ETH" -> 3
      [] asset \in {"SOL", "AVAX"} -> 1
      [] asset \in {"MATIC", "DOGE"} -> 0
      [] OTHER -> 3

\* TradingConfig.asset: the default.
ConfigAsset == "HYPE"

OU_ValidateOrderParameters(order, mark_price) ==
    /\ ~(order.size <= 0)
    /\ ~(order.price <= 0)
    /\ ~(order.size * order.price < NotionalTenths(120))
    /\ ~(Abs(order.price - mark_price) * 2 > mark_price)

\* ------------------------------------------------ EnhancedPerpMarketMaker
\* max(round(12.0 / mark * 1.2, decimals), 0.01)
EMM_CalculateBaseSize(mark_price) ==
    Max(RoundSize(1440, mark_price, OU_GetSizeDecimals(ConfigAsset)), Size(10))

\* The orders of _create_momentum_order: one order of 1.5 base sizes, or none.
EMM_CreateMomentumOrder(pos, mark_price, signal, base_size, config_max_position) ==
    LET momentum_size == (base_size * 3) \div 2
        side == IF signal = "long" THEN "BUY" ELSE "SELL"
        order == TakerOrder(momentum_size, mark_price, side, FALSE)
    IN  IF ~RM_CheckPositionLimits(pos, momentum_size, side = "BUY", config_max_position)
        THEN <<>>
        ELSE IF OU_ValidateOrderParameters(order, mark_price) THEN <<order>> ELSE <<>>

\* Each side is checked against the position the cycle started with.
EMM_CreateMarketMakingOrders(pos, mark_price, base_size, config_max_position) ==
    LET buy_order == TakerOrder(base_size, mark_price, "BUY", FALSE)
        sell_order == TakerOrder(base_size, mark_price, "SELL", FALSE)
        buys == IF /\ RM_CheckPositionLimits(pos, base_size, TRUE, config_max_position)
                   /\ OU_ValidateOrderParameters(buy_order, mark_price)
                THEN <<buy_order>> ELSE <<>>
        sells == IF /\ RM_CheckPositionLimits(pos, base_size, FALSE, config_max_position)
                    /\ OU_ValidateOrderParameters(sell_order, mark_price)
                 THEN <<sell_order>> ELSE <<>>
    IN  buys \o sells

\* should_trade is the answer of _should_trade, signal and trade_momentum the
\* answers of the momentum analyzer ("none" for no signal).
EMM_CalculateOrders(pos, mark_price, should_trade, signal, trade_momentum, config_max_position) ==
    IF ~should_trade THEN <<>>
    ELSE LET base_size == EMM_CalculateBaseSize(mark_price)
         IN  IF signal # "none" /\ trade_momentum
             THEN EMM_CreateMomentumOrder(pos, mark_price, signal, base_size, config_max_position)
             ELSE EMM_CreateMarketMakingOrders(pos, mark_price, base_size, config_max_position)

\* _execute_ioc_reduction and _execute_market_reduction read self.exchange
\* before they build a request; the AttributeError is caught in each and
\* answered False.
EMM_ExecuteIocReduction(size, price, is_long) ==
    IF StrategyHas("exchange")
    THEN [requests |-> <<IocRequest(size, ~is_long, price)>>, returned |-> FALSE]
    ELSE [requests |-> NoRequests, returned |-> FALSE]

EMM_ExecuteMarketReduction(size, mark_price) ==
    IF StrategyHas("exchange")
    THEN [requests |-> <<MarketCloseRequest(size, mark_price)>>, returned |-> FALSE]
    ELSE [requests |-> NoRequests, returned |-> FALSE]

EMM_ExecutePositionReduction(pos, mark_price) ==
    IF pos = 0 THEN [requests |-> NoRequests, returned |-> TRUE]
    ELSE LET reduction_size == Min(Size(570), Abs(pos))
             is_long == pos > 0
             reduce_price == (mark_price * (IF is_long THEN 995 ELSE 1005)) \div 1000
             ioc == EMM_ExecuteIocReduction(reduction_size, reduce_price, is_long)
             mkt == EMM_ExecuteMarketReduction(reduction_size, mark_price)
         IN  IF ioc.returned THEN ioc
             ELSE [requests |-> ioc.requests \o mkt.requests, returned |-> mkt.returned]

\* -------------------------------------------------- AggressiveMarketMaker
\* No test of the position: a flat position counts as not long.  self.exchange
\* is read first; the AttributeError is caught and answered False.
AMM_ExecutePositionReduction(pos, mark_price) ==
    LET reduction_size == Size(570)
        is_long == pos > 0
        reduce_price == (mark_price * (IF is_long THEN 995 ELSE 1005)) \div 1000
    IN  IF StrategyHas("exchange")
        THEN [requests |-> <<IocRequest(reduction_size, ~is_long, reduce_price),
                             MarketCloseRequest(reduction_size, mark_price)>>,
              returned |-> FALSE]
        ELSE [requests |-> NoRequests, returned |-> FALSE]

\* ------------------------------------------------------------ AgentSmith
\* round_price of a price of whole cents: 5 significant figures, then 4
\* decimals, then a multiple of the tick 0.0001.  Below $1000 five figures
\* reach the cent; from $1000 they reach ten cents, from $10000 a dollar.
AS_RoundPrice(price) ==
    IF price < 100000 THEN price
    ELSE IF price < 1000000 THEN RoundHalfEven(price, 10) * 10
    ELSE RoundHalfEven(price, 100) * 100

AS_ReduceSideMutSameSide(is_long) == IF is_long THEN "BUY" ELSE "SELL"

AS_ReduceSide(is_long) == IF is_long THEN "SELL" ELSE "BUY"

\* AgentSmith.calculate_orders: orders only above the maximum position.
AS_CalculateOrders(pos, mark_price, config_max_position) ==
    IF ~(Abs(pos) > config_max_position) THEN <<>>
    ELSE LET \* max(12.0 * 1.05 / mark, 0.1 * |position|), rounded to 3 decimals
             reduce_size ==
                 Max(RoundSize(1260, mark_price, 3), RoundSize(Abs(pos), 20000, 3))
             is_long == pos > 0
             price_adjust == IF is_long THEN 998 ELSE 1002
             reduce_price == AS_RoundPrice((mark_price * price_adjust) \div 1000)
             reduce_order == TakerOrder(reduce_size, reduce_price, AS_ReduceSide(is_long), TRUE)
         IN  IF reduce_size * reduce_price >= NotionalTenths(120)
             THEN <<reduce_order>> ELSE <<>>

\* handle_max_position without the minimum order value.
AS_HandleMaxPositionMutNoFloor(pos, mark_price, decimals, config_max_position) ==
    LET reduction_needed == Abs(pos) - (config_max_position * 7) \div 10
    IN  <<MarketCloseRequest(RoundSize(reduction_needed, 2000, decimals), mark_price)>>

\* AgentSmith.handle_max_position: round(max(|position| - 0.70 * max, 12.1 /
\* mark), decimals), asked of exchange.market_close; rounding is monotone, so
\* the larger of the two rounded sizes.  It is called with a usage of 0.85 or
\* more, so that the reduction needed is positive.
AS_HandleMaxPosition(pos, mark_price, decimals, config_max_position) ==
    LET reduction_needed == Abs(pos) - (config_max_position * 7) \div 10
        reduction_size == Max(RoundSize(reduction_needed, 2000, decimals),
                              RoundSize(1210, mark_price, decimals))
    IN  <<MarketCloseRequest(reduction_size, mark_price)>>

\* AgentSmith.check_position_status: at a usage of 0.85 or more it reads the
\* open orders and, when none is of the asset, calls handle_max_position.
\* (With orders of the asset it cancels those older than 60 s and requests no
\* reduction.)
AS_CheckPositionStatus(pos, mark_price, decimals, has_orders, config_max_position) ==
    IF config_max_position > 0 /\ Abs(pos) * 100 >= config_max_position * 85 /\ ~has_orders
      THEN AS_HandleMaxPosition(pos, mark_price, decimals, config_max_position)
      ELSE NoRequests

\* ------------------------------------------------------- PositionReducer
\* round(max(12.1 / mark, 0.10 * |position|), decimals), asked of
\* exchange.market_close; rounding is monotone, so the larger of the two
\* rounded sizes.  answer is what the exchange says.
PR_ReductionSize(pos, mark_price, decimals) ==
    Max(RoundSize(1210, mark_price, decimals), RoundSize(Abs(pos), 20000, decimals))

PR_ReducePosition(pos, mark_price, decimals, answer) ==
    [requests |-> <<MarketCloseRequest(PR_ReductionSize(pos, mark_price, decimals), mark_price)>>,
     returned |-> answer = "filled"]

\* PositionManager.should_reduce_position: utilization > 0.8
PM_ShouldReducePosition(pos, config_max_position) ==
    Abs(pos) * 10 > config_max_position * 8

\* ------------------------------------------------------ strategy actions
NoOperation == [op |-> "none", mark |-> 0, position |-> 0, orders |-> <<>>,
                requests |-> NoRequests, returned |-> FALSE]

Operation(op, mark, pos, orders, requests, returned) ==
    [op |-> op, mark |-> mark, position |-> pos, orders |-> orders,
     requests |-> requests, returned |-> returned]

\* Marks of the strategy cycles and of the reducer, which work with sizes
\* only, and marks of AgentSmith.calculate_orders.
StratMarks == {400, 2500}
ReducerMarks == {250, 2850, 52000}
ReduceOrderMarks == {500, 52000}
SizeDecimals == {2, 3}

\* TradingConfig.max_position (5.0 by default) and the position of the
\* account when the program starts.
MaxPositions == {Size(2500), Size(5000)}
StartPositions == {0, Size(200), -Size(200), Size(4100), -Size(4100), Size(4300)}

StratIdle ==
    /\ position = 0
    /\ start_position = 0
    /\ max_position = Size(5000)
    /\ steps = 0
    /\ made = NoOperation

StratInit ==
    /\ max_position \in MaxPositions
    /\ start_position \in StartPositions
    /\ position = start_position
    /\ steps = 0
    /\ made = NoOperation

RECURSIVE FilledInFull(_, _)
\* The position after every order of the list is filled in full.
FilledInFull(pos, orders) ==
    IF orders = <<>> THEN pos
    ELSE FilledInFull(pos + (IF Head(orders).side = "BUY" THEN Head(orders).size
                                                          ELSE -Head(orders).size),
                      Tail(orders))

\* One cycle of the enhanced strategy: the orders of calculate_orders, each
\* approved by check_position_limits, are filled in full.
CycleEMM_CalculateOrders ==
    /\ steps < MaxSteps
    /\ \E mark \in StratMarks, should_trade \in BOOLEAN,
          signal \in {"none", "long", "short"}, trade_momentum \in BOOLEAN :
          LET orders == EMM_CalculateOrders(position, mark, should_trade, signal,
                                            trade_momentum, max_position)
          IN  /\ made' = Operation("EnhancedPerpMarketMaker.calculate_orders", mark,
                                   position, orders, NoRequests, TRUE)
              /\ position' = FilledInFull(position, orders)
    /\ steps' = steps + 1
    /\ UNCHANGED <<max_position, start_position>>
    /\ UNCHANGED <<loopVars, execVars, cycleVars, timedVars, unitVars>>

\* TradingEngine._handle_position_management: the strategy's reduction when
\* the position manager asks for one.
CallEMM_ExecutePositionReduction ==
    /\ steps < MaxSteps
    /\ PM_ShouldReducePosition(position, max_position)
    /\ \E mark \in StratMarks :
          LET r == EMM_ExecutePositionReduction(position, mark)
          IN  made' = Operation("EnhancedPerpMarketMaker.execute_position_reduction",
                                mark, position, <<>>, r.requests, r.returned)
    /\ steps' = steps + 1
    /\ UNCHANGED <<position, max_position, start_position>>
    /\ UNCHANGED <<loopVars, execVars, cycleVars, timedVars, unitVars>>

CallAMM_ExecutePositionReduction ==
    /\ steps < MaxSteps
    /\ \E mark \in StratMarks :
          LET r == AMM_ExecutePositionReduction(position, mark)
          IN  made' = Operation("AggressiveMarketMaker.execute_position_reduction",
                                mark, position, <<>>, r.requests, r.returned)
    /\ steps' = steps + 1
    /\ UNCHANGED <<position, max_position, start_position>>
    /\ UNCHANGED <<loopVars, execVars, cycleVars, timedVars, unitVars>>

CallAS_CalculateOrders ==
    /\ steps < MaxSteps
    /\ \E mark \in ReduceOrderMarks :
          made' = Operation("AgentSmith.calculate_orders", mark, position,
                            AS_CalculateOrders(position, mark, max_position),
                            NoRequests, TRUE)
    /\ steps' = steps + 1
    /\ UNCHANGED <<position, max_position, start_position>>
    /\ UNCHANGED <<loopVars, execVars, cycleVars, timedVars, unitVars>>

\* AgentSmith.trading_loop: the reducer runs when there is a position
\* (above 0.001) that uses 80% of the maximum or more.  A filled request
\* moves the position towards zero by the size asked, at most to zero.
CallPR_ReducePosition ==
    /\ steps < MaxSteps
    /\ Abs(position) > Size(1)
    /\ Abs(position) * 10 >= max_position * 8
    /\ \E mark \in ReducerMarks, decimals \in SizeDecimals,
          answer \in {"filled", "error", "resting"} :
          LET r == PR_ReducePosition(position, mark, decimals, answer)
              closed == Min(r.requests[1].sz, Abs(position))
          IN  /\ made' = Operation("PositionReducer.reduce_position", mark, position,
                                   <<>>, r.requests, r.returned)
              /\ position' = IF answer = "filled"
                             THEN (IF position > 0 THEN position - closed
                                                   ELSE position + closed)
                             ELSE position
    /\ steps' = steps + 1
    /\ UNCHANGED <<max_position, start_position>>
    /\ UNCHANGED <<loopVars, execVars, cycleVars, timedVars, unitVars>>

\* AgentSmith.check_position_status.  A filled request moves the position
\* towards zero by the size asked, at most to zero.
CallAS_CheckPositionStatus ==
    /\ steps < MaxSteps
    /\ \E mark \in StratMarks, decimals \in SizeDecimals, has_orders \in BOOLEAN,
          answer \in {"filled", "error"} :
          LET requests == AS_CheckPositionStatus(position, mark, decimals, has_orders,
                                                 max_position)
              closed == IF requests = NoRequests THEN 0
                        ELSE Min(requests[1].sz, Abs(position))
          IN  /\ made' = Operation("AgentSmith.check_position_status", mark, position,
                                   <<>>, requests, requests # NoRequests /\ answer = "filled")
              /\ position' = IF answer = "filled"
                             THEN (IF position > 0 THEN position - closed
                                                   ELSE position + closed)
                             ELSE position
    /\ steps' = steps + 1
    /\ UNCHANGED <<max_position, start_position>>
    /\ UNCHANGED <<loopVars, execVars, cycleVars, timedVars, unitVars>>

StratNext ==
    \/ CycleEMM_CalculateOrders
    \/ CallEMM_ExecutePositionReduction
    \/ CallAMM_ExecutePositionReduction
    \/ CallAS_CalculateOrders
    \/ CallPR_ReducePosition
    \/ CallAS_CheckPositionStatus

(***************************************************************************)
(* One trading cycle: TradingEngine.trading_loop (one pass of its while    *)
(* loop) and AgentSmith.trading_loop.  A cycle reads a snapshot from its   *)
(* provider, checks the position, and reduces or trades.  TradingEngine    *)
(* is given its provider by whoever builds it; AgentSmith reads its own.   *)
(* What the executors do with the orders handed to them is the subject of  *)
(* SpecExec and SpecBatch; a cycle records which orders it handed over.    *)
(***************************************************************************)
Snapshot(bid, ask, mark, pos) ==
    [best_bid |-> bid, best_ask |-> ask, mark_price |-> mark, position |-> pos]

NoSnapshot == Snapshot(0, 0, 0, 0)

\* MarketDataManager.validate_market_data: the spread is at most 10% of the
\* bid (infinite for a bid that is not positive), and bid, ask and mark are
\* positive.
MDM_ValidateMarketData(ms) ==
    LET spread == ms.best_ask - ms.best_bid
        too_wide == IF ms.best_bid > 0 THEN spread * 10 > ms.best_bid ELSE TRUE
    IN  /\ ~too_wide
        /\ ~(ms.best_bid <= 0 \/ ms.best_ask <= 0)
        /\ ~(ms.mark_price <= 0)

\* AggressiveMarketMaker.check_position_limits
AMM_CheckPositionLimits(current_position, size, is_buy, config_max_position) ==
    IF current_position > 0 /\ ~is_buy THEN TRUE
    ELSE IF current_position < 0 /\ is_buy THEN TRUE
    ELSE LET new_position == current_position + (IF is_buy THEN size ELSE -size)
         IN  ~(Abs(new_position) > config_max_position)

\* AggressiveMarketMaker.last_momentum_signal: set to None by the constructor
\* and by calculate_orders, and assigned nowhere else.
AMM_LastMomentumSignal == "none"

\* AggressiveMarketMaker.calculate_orders.  base_size = max(12 / mark * 1.2,
\* 0.01), not rounded: the marks of the model divide 14.4 into whole size
\* units.  AgentSmith builds the strategy with max_position =
\* config.max_position.
AMM_CalculateOrders(ms, signal, config_max_position) ==
    LET base_size == IF ms.mark_price > 0
                     THEN Max((1440 * 2000) \div ms.mark_price, Size(10))
                     ELSE Size(10)
        trade_size == (base_size * 3) \div 2
        side == IF signal = "long" THEN "BUY" ELSE "SELL"
    IN  IF signal # "none"
        THEN IF AMM_CheckPositionLimits(ms.position, trade_size, side = "BUY",
                                        config_max_position)
             THEN <<TakerOrder(trade_size, ms.mark_price, side, FALSE)>>
             ELSE <<>>
        ELSE IF ms.best_ask - ms.best_bid > 0
        THEN (IF ms.position + base_size <= config_max_position
              THEN <<TakerOrder(base_size, ms.mark_price, "BUY", FALSE)>> ELSE <<>>)
             \o
             (IF ms.position - base_size >= -config_max_position
              THEN <<TakerOrder(base_size, ms.mark_price, "SELL", FALSE)>> ELSE <<>>)
        ELSE <<>>

\* What a cycle did.  got: what the provider gave ("none", "raise" or
\* "state"); should_trade: what the strategy's should_trade answers for the
\* snapshot; checked: the position check was made; over_limit: it asked for
\* a reduction; calc: the strategy's calculate_orders was called; handed: the
\* orders given to the executor; slept: milliseconds slept before returning.
Cycle(prog, got, ms, should_trade, checked, over_limit, reduction, reduced, requests, calc, orders, handed, raised, slept) ==
    [program |-> prog, got |-> got, snapshot |-> ms, should_trade |-> should_trade,
     checked |-> checked,
     over_limit |-> over_limit, reduction |-> reduction, reduced |-> reduced,
     requests |-> requests, calc |-> calc, orders |-> orders, handed |-> handed,
     raised |-> raised, slept |-> slept]

NoCycle == Cycle("none", "none", NoSnapshot, FALSE, FALSE, FALSE, FALSE, FALSE, NoRequests,
                 FALSE, <<>>, <<>>, "none", 0)

\* One pass of the while loop of TradingEngine.trading_loop.  An exception of
\* the provider goes to _handle_error, whose backoff is part of the run loop.
TE_TradingCycle(got, ms, should_trade, signal, trade_momentum, config_max_position) ==
    IF got = "raise"
    THEN Cycle("engine", got, NoSnapshot, should_trade, FALSE, FALSE, FALSE, FALSE, NoRequests,
               FALSE, <<>>, <<>>, "MarketDataException", 0)
    ELSE IF got = "none"
    THEN Cycle("engine", got, NoSnapshot, should_trade, FALSE, FALSE, FALSE, FALSE, NoRequests,
               FALSE, <<>>, <<>>, "none", 30000)
    ELSE IF ~MDM_ValidateMarketData(ms)
    THEN Cycle("engine", got, ms, should_trade, FALSE, FALSE, FALSE, FALSE, NoRequests,
               FALSE, <<>>, <<>>, "none", 10000)
    ELSE
      LET \* _handle_position_management
          over == PM_ShouldReducePosition(ms.position, config_max_position)
          red == IF over THEN EMM_ExecutePositionReduction(ms.position, ms.mark_price)
                 ELSE [requests |-> NoRequests, returned |-> FALSE]
          position_handled == over /\ red.returned
          \* _execute_trading_cycle
          calc == ~position_handled /\ should_trade
          orders == IF calc
                    THEN EMM_CalculateOrders(ms.position, ms.mark_price, should_trade,
                                             signal, trade_momentum, config_max_position)
                    ELSE <<>>
      IN  Cycle("engine", got, ms, should_trade, TRUE, over, over, position_handled, red.requests,
                calc, orders, orders, "none", 10000)

\* AgentSmith.trading_loop.  position_usage is bound only when there is a
\* position (above 0.001); the test of the strategy branch reads it after
\* self.strategy, which is set, so that a cycle without a position ends in
\* the catch-all handler with UnboundLocalError.
AS_TradingLoop(got, ms, decimals, reducer_answer, should_trade, config_max_position) ==
    IF got = "none"
    THEN Cycle("agent", got, NoSnapshot, should_trade, FALSE, FALSE, FALSE, FALSE, NoRequests,
               FALSE, <<>>, <<>>, "none", 5000)
    ELSE
      LET has_position == Abs(ms.position) > Size(1)
          over == has_position /\ Abs(ms.position) * 10 >= config_max_position * 8
          red == PR_ReducePosition(ms.position, ms.mark_price, decimals, reducer_answer)
          orders == AMM_CalculateOrders(ms, AMM_LastMomentumSignal, config_max_position)
      IN  IF over
          THEN Cycle("agent", got, ms, should_trade, TRUE, TRUE, TRUE, red.returned, red.requests,
                     FALSE, <<>>, <<>>, "none", IF red.returned THEN 5000 ELSE 3000)
          ELSE IF ~has_position
          THEN Cycle("agent", got, ms, should_trade, FALSE, FALSE, FALSE, FALSE, NoRequests,
                     FALSE, <<>>, <<>>, "UnboundLocalError", 5000)
          ELSE IF should_trade /\ orders # <<>>
          THEN Cycle("agent", got, ms, should_trade, TRUE, FALSE, FALSE, FALSE, NoRequests,
                     TRUE, orders, orders, "none", 1000)
          ELSE Cycle("agent", got, ms, should_trade, TRUE, FALSE, FALSE, FALSE, NoRequests,
                     should_trade, IF should_trade THEN orders ELSE <<>>, <<>>, "none",
                     2000 + (3000 * Abs(ms.position)) \div config_max_position)

\* ---------------------------------------------------------- cycle actions
\* Snapshots a provider may give to TradingEngine, and the states that
\* AgentSmith.get_perp_market_state builds (its mark price is positive).
SnapshotBids == {0, 8000, 9990, 10100}
SnapshotAsks == {0, 10000}
SnapshotMarks == {0, 10000}
SnapshotPositions ==
    {0, Size(1), Size(1000), Size(3000), Size(4000), Size(4100), -Size(4100)}

Snapshots ==
    {Snapshot(b, a, m, p) : b \in SnapshotBids, a \in SnapshotAsks,
                            m \in SnapshotMarks, p \in SnapshotPositions}

AgentSnapshots == {ms \in Snapshots : ms.mark_price > 0}

CycleIdle == cyc = NoCycle

EngineTradingCycle ==
    /\ \E got \in {"none", "raise", "state"}, ms \in Snapshots,
          should_trade \in BOOLEAN, signal \in {"none", "long", "short"},
          trade_momentum \in BOOLEAN :
          cyc' = TE_TradingCycle(got, ms, should_trade, signal, trade_momentum,
                                 max_position)
    /\ UNCHANGED <<loopVars, execVars, stratVars, timedVars, unitVars>>

AgentTradingLoop ==
    /\ \E got \in {"none", "state"}, ms \in AgentSnapshots, decimals \in SizeDecimals,
          reducer_answer \in {"filled", "error", "resting"}, should_trade \in BOOLEAN :
          cyc' = AS_TradingLoop(got, ms, decimals, reducer_answer, should_trade,
                                max_position)
    /\ UNCHANGED <<loopVars, execVars, stratVars, timedVars, unitVars>>

\* ------------------------------------------------ the snapshot providers

\* Answers of info.l2_snapshot: an exception, None, a book without 'levels',
\* with one level list, with two lists of which the bids are empty, or a
\* book with a bid and an ask.
BookAnswers == {"raise", "none", "no_levels", "one_level", "no_bids", "ok"}

\* Answers of info.user_state: an exception, None, a state without
\* 'marginSummary', or a complete state.
UserAnswers == {"raise", "none", "no_margin", "ok"}

\* Answers of info.all_mids: an exception, a dictionary without the asset,
\* or one with it.
MidsAnswers == {"raise", "missing", "ok"}

\* What a provider hands its caller: None, an exception, or a snapshot.
Fetched(got, ms) == [got |-> got, snapshot |-> ms]

\* MarketDataManager.get_perp_market_state, book and user being the answers
\* of l2_snapshot and user_state. With both answers complete the function
\* builds PerpMarketState with the keywords margin_summary,
\* cross_margin_summary and all_positions, which the dataclass does not
\* have: a TypeError. Every exception of the try block is raised again as
\* MarketDataException.
MDM_GetPerpMarketState(book, user) ==
    IF book = "raise" THEN Fetched("raise", NoSnapshot)
    ELSE IF book \in {"none", "no_levels", "one_level", "no_bids"}
      THEN Fetched("none", NoSnapshot)
    ELSE IF user = "raise" THEN Fetched("raise", NoSnapshot)
    ELSE IF user = "none" THEN Fetched("none", NoSnapshot)
    ELSE Fetched("raise", NoSnapshot)

\* The attempts a retry loop of AgentSmith.get_perp_market_state makes.
Attempts == 3

RECURSIVE AS_Retry(_, _, _, _)
\* One retry loop of AgentSmith.get_perp_market_state: answers[i] is the
\* answer to attempt i, value the last answer that was not an exception
\* ("none" before the first), Good the answers that end the loop. An
\* exception of the last attempt makes the function return None.
AS_Retry(answers, i, value, Good) ==
    IF i > Attempts THEN value
    ELSE IF answers[i] = "raise"
      THEN IF i = Attempts THEN "return None"
           ELSE AS_Retry(answers, i + 1, value, Good)
    ELSE IF answers[i] \in Good THEN answers[i]
    ELSE AS_Retry(answers, i + 1, answers[i], Good)

\* AgentSmith.get_perp_market_state, ms holding the prices and the position
\* the complete answers carry. A KeyError of a state without
\* 'marginSummary' or of a book without 'levels' is caught by the inner
\* handler, the IndexError of a book with one level list by the outer one;
\* both return None. Empty bids are replaced by the mid price.
AS_GetPerpMarketState(mids, users, books, ms) ==
    LET market_data == AS_Retry(mids, 1, "none", {"ok"})
        user_state == AS_Retry(users, 1, "none", {"ok"})
        book == AS_Retry(books, 1, "none", {"ok", "no_bids"})
    IN  IF market_data \in {"return None", "none", "missing"}
          THEN Fetched("none", NoSnapshot)
        ELSE IF ms.mark_price <= 0 THEN Fetched("none", NoSnapshot)
        ELSE IF user_state \in {"return None", "none", "no_margin"}
          THEN Fetched("none", NoSnapshot)
        ELSE IF book \in {"return None", "none", "no_levels", "one_level"}
          THEN Fetched("none", NoSnapshot)
        ELSE Fetched("state",
                     Snapshot(IF book = "no_bids" THEN ms.mark_price ELSE ms.best_bid,
                              ms.best_ask, ms.mark_price, ms.position))

\* The snapshots the complete answers of a fetch carry.
FetchSnapshots == {Snapshot(9990, 10000, m, Size(1000)) : m \in SnapshotMarks}

\* A call of a provider: the answers the remote calls give, attempt by
\* attempt, the prices and position the complete answers carry, and what
\* the provider hands its caller ("pending" before it has run).
Fetch(prog, mids, users, books, ms, f) ==
    [program |-> prog, mids |-> mids, users |-> users, books |-> books,
     carried |-> ms, got |-> f.got, snapshot |-> f.snapshot]

Pending == Fetched("pending", NoSnapshot)

\* The calls to be made: MarketDataManager asks each source once,
\* AgentSmith up to three times.
FetchInit ==
    \/ \E book \in BookAnswers, user \in UserAnswers, ms \in FetchSnapshots :
          cyc = Fetch("MarketDataManager.get_perp_market_state", <<>>, <<user>>,
                      <<book>>, ms, Pending)
    \/ \E mids \in [1..Attempts -> MidsAnswers], users \in [1..Attempts -> UserAnswers],
          books \in [1..Attempts -> BookAnswers], ms \in FetchSnapshots :
          cyc = Fetch("AgentSmith.get_perp_market_state", mids, users, books, ms,
                      Pending)

CallMDM_GetPerpMarketState ==
    /\ cyc.program = "MarketDataManager.get_perp_market_state"
    /\ cyc.got = "pending"
    /\ cyc' = Fetch(cyc.program, cyc.mids, cyc.users, cyc.books, cyc.carried,
                    MDM_GetPerpMarketState(cyc.books[1], cyc.users[1]))
    /\ UNCHANGED <<loopVars, execVars, stratVars, timedVars, unitVars>>

CallAS_GetPerpMarketState ==
    /\ cyc.program = "AgentSmith.get_perp_market_state"
    /\ cyc.got = "pending"
    /\ cyc' = Fetch(cyc.program, cyc.mids, cyc.users, cyc.books, cyc.carried,
                    AS_GetPerpMarketState(cyc.mids, cyc.users, cyc.books,
                                          cyc.carried))
    /\ UNCHANGED <<loopVars, execVars, stratVars, timedVars, unitVars>>

FetchNext ==
    \/ CallMDM_GetPerpMarketState
    \/ CallAS_GetPerpMarketState

CycleNext ==
    \/ EngineTradingCycle
    \/ AgentTradingLoop

(***************************************************************************)
(* The rate-limit governor on its own: any caller may make any call of     *)
(* RateLimitHandler at any time.                                           *)
(***************************************************************************)

\* The clock of the governor runs in half-seconds up to MaxGovTime.
MaxGovTime == 130

\* on_request is called at most MaxRequests times.
MaxRequests == 1000

\* on_rate_limit_error is called at most MaxHits times.
MaxHits == 7

\* volume_traded grows to at most MaxVolume.
MaxVolume == 12

\* How many on_request calls are made in a row at one instant.
RequestBursts == {PerMinuteLimit - 1, PerMinuteLimit}

\* The volume arguments of on_success, in dollars.
Volumes == {-5, 0, 12}

\* on_request called n >= 1 times at time t: each call adds one to both
\* counters and writes the same time.
RL_OnRequests(h, t, n) ==
    [RL_OnRequest(h, t) EXCEPT !.request_count = @ + (n - 1),
                               !.requests_this_minute = @ + (n - 1)]

GovOnRequest ==
    /\ \E n \in RequestBursts :
         /\ rl.request_count + n <= MaxRequests
         /\ rl' = RL_OnRequests(rl, now, n)
    /\ last' = Called("RateLimitHandler.on_request", 0, <<>>, "none")
    /\ UNCHANGED now
    /\ UNCHANGED <<loopVars, stratVars, cycleVars, timedVars, unitVars>>

GovOnSuccess ==
    /\ \E volume \in Volumes :
         /\ rl.volume_traded + volume <= MaxVolume
         /\ rl' = RL_OnSuccess(rl, volume)
    /\ last' = Called("RateLimitHandler.on_success", 0, <<>>, "none")
    /\ UNCHANGED now
    /\ UNCHANGED <<loopVars, stratVars, cycleVars, timedVars, unitVars>>

GovOnRateLimitError ==
    /\ rl.rate_limit_hits < MaxHits
    /\ rl' = RL_OnRateLimitError(rl, now)
    /\ last' = Called("RateLimitHandler.on_rate_limit_error", 0, <<>>, "none")
    /\ UNCHANGED now
    /\ UNCHANGED <<loopVars, stratVars, cycleVars, timedVars, unitVars>>

GovCheckRateLimits ==
    /\ rl' = RL_CheckRateLimits(rl, now).h
    /\ last' = Called("RateLimitHandler.check_rate_limits", 0, <<>>,
                      RL_CheckRateLimits(rl, now).answer)
    /\ UNCHANGED now
    /\ UNCHANGED <<loopVars, stratVars, cycleVars, timedVars, unitVars>>

GovCanTrade ==
    /\ last' = Called("RateLimitHandler.can_trade", 0, <<>>,
                      RL_CanTrade(rl, now))
    /\ UNCHANGED <<now, rl>>
    /\ UNCHANGED <<loopVars, stratVars, cycleVars, timedVars, unitVars>>

GovTick ==
    /\ \E d \in {Secs(15), Secs(MinuteWindowSecs)} :
         /\ now + d <= MaxGovTime
         /\ now' = now + d
    /\ UNCHANGED <<rl, last>>
    /\ UNCHANGED <<loopVars, stratVars, cycleVars, timedVars, unitVars>>

GovNext ==
    \/ GovOnRequest
    \/ GovOnSuccess
    \/ GovOnRateLimitError
    \/ GovCheckRateLimits
    \/ GovCanTrade
    \/ GovTick

(***************************************************************************)
(* Throttles over time: the hourly limit of momentum orders                *)
(* (strategies/momentum_analyzer.py) and the waiting time of the position  *)
(* reducer (strategies/position_reducer.py).                               *)
(***************************************************************************)

\* MomentumAnalyzer.__init__ at time t, with the default max_momentum_trades;
\* emitted is the history of the times at which a momentum order was made.
max_momentum_trades == 2

MA_New(t) == [momentum_trades |-> 0, momentum_reset_time |-> t, emitted |-> <<>>]

\* The length of the momentum window, in seconds.
MomentumWindowSecs == 3600

\* should_trade_momentum at time t: the analyzer it leaves and its answer.
MA_ShouldTradeMomentum(m, t) ==
    LET g == IF t - m.momentum_reset_time > Secs(MomentumWindowSecs)
             THEN [m EXCEPT !.momentum_trades = 0, !.momentum_reset_time = t]
             ELSE m
    IN  [m |-> g, answer |-> g.momentum_trades < max_momentum_trades]

\* update_momentum_trade at time t
MA_UpdateMomentumTrade(m, t) ==
    [m EXCEPT !.momentum_trades = @ + 1, !.emitted = Append(@, t)]

\* PositionReducer.__init__: reductions is the history of the times at which
\* reduce_position submitted an order.
PR_New == [last_attempt_time |-> 0, min_wait_time |-> Secs(45), reductions |-> <<>>]

TimedIdle == mom = MA_New(0) /\ reducer = PR_New

\* DynamicRiskManager.__init__: an empty trade history.  call is the history
\* of the latest call of the manager: its inputs and its answer.
NoRiskCall ==
    [op |-> "none", position |-> 0, size |-> 0, is_buy |-> FALSE, mark |-> 0,
     answer |-> FALSE]

RM_New == [trade_history |-> <<>>, call |-> NoRiskCall]

\* No price: None.
NoPrice == 0

\* PositionManager.__init__.  observed is the history of the latest position
\* given to update_position_state, started tells that the engine has made
\* its setup, cycles counts the cycles of its loop.
PM_New ==
    [position_entry_price |-> NoPrice, last_position_size |-> 0,
     observed |-> 0, started |-> FALSE, cycles |-> 0]

UnitIdle == risk = RM_New /\ tracker = PM_New

\* EnhancedPerpMarketMaker.calculate_orders at time t with the analyzer m:
\* should_trade_momentum is asked only when there is a signal, and
\* update_momentum_trade is called only when a momentum order was made.
EMM_CalculateOrdersAt(m, t, pos, mark_price, should_trade, signal, config_max_position) ==
    LET asked == should_trade /\ signal # "none"
        ans == MA_ShouldTradeMomentum(m, t)
        trade_momentum == asked /\ ans.answer
        orders == EMM_CalculateOrders(pos, mark_price, should_trade, signal,
                                      trade_momentum, config_max_position)
        g == IF asked THEN ans.m ELSE m
    IN  [m |-> IF trade_momentum /\ orders # <<>> THEN MA_UpdateMomentumTrade(g, t) ELSE g,
         orders |-> orders,
         momentum |-> trade_momentum /\ orders # <<>>]

\* The clock of the throttles runs in half-seconds up to MaxMomTime.
MaxMomTime == 7204

\* Positions at which calculate_orders is called: flat, or 4.9 long.
MomPositions == {0, Size(4900)}

CallEMM_CalculateOrdersAt ==
    /\ \E pos \in MomPositions, mark_price \in StratMarks, should_trade \in BOOLEAN,
          signal \in {"none", "long", "short"} :
         LET r == EMM_CalculateOrdersAt(mom, now, pos, mark_price, should_trade,
                                        signal, max_position)
         IN  /\ mom' = r.m
             /\ last' = Called("EnhancedPerpMarketMaker.calculate_orders", mark_price,
                               r.orders, IF r.momentum THEN "momentum" ELSE "none")
    /\ UNCHANGED <<now, rl, reducer>>
    /\ UNCHANGED <<loopVars, stratVars, cycleVars, unitVars>>

\* Half an hour, or a second more, passes.
MomTick ==
    /\ \E d \in {Secs(1800), Secs(1801)} :
         /\ now + d <= MaxMomTime
         /\ now' = now + d
    /\ UNCHANGED <<rl, last>>
    /\ UNCHANGED <<loopVars, stratVars, cycleVars, timedVars, unitVars>>

MomNext ==
    \/ CallEMM_CalculateOrdersAt
    \/ MomTick

\* PositionReducer.reduce_position at time t: it neither reads nor writes
\* last_attempt_time and min_wait_time, and submits whenever it is called.
PR_ReducePositionAt(r, t) == [r EXCEPT !.reductions = Append(@, t)]

\* The clock of the agent's cycles runs up to MaxReduceTime half-seconds.
MaxReduceTime == 60

\* Snapshots of the agent's cycles over time: flat, or 4.1 long or short.
ReduceSnapshots ==
    {Snapshot(9990, 10000, 10000, p) : p \in {0, Size(4100), -Size(4100)}}

\* One call of AgentSmith.trading_loop at time now, its sleep included.
AgentTradingLoopAt ==
    /\ \E got \in {"none", "state"}, ms \in ReduceSnapshots, decimals \in SizeDecimals,
          reducer_answer \in {"filled", "error", "resting"}, should_trade \in BOOLEAN :
         LET c == AS_TradingLoop(got, ms, decimals, reducer_answer, should_trade,
                                 max_position)
         IN  /\ now + c.slept \div 500 <= MaxReduceTime
             /\ cyc' = c
             /\ now' = now + c.slept \div 500
             /\ reducer' = IF c.reduction THEN PR_ReducePositionAt(reducer, now)
                           ELSE reducer
    /\ UNCHANGED <<rl, last, mom>>
    /\ UNCHANGED <<loopVars, stratVars, unitVars>>

ReduceNext == AgentTradingLoopAt

(***************************************************************************)
(* The risk manager (DynamicRiskManager) and the position manager          *)
(* (PositionManager) on their own: their methods called in any order.      *)
(***************************************************************************)

\* A trade of the history is its pnl; a loss is a pnl below 0.
Pnls == {-1, 1}

HistoryLimit == 100

RECURSIVE Wins(_)
\* k winning trades.
Wins(k) == IF k = 0 THEN <<>> ELSE <<1>> \o Wins(k - 1)

\* update_trade_history: the trade is appended and the last 100 are kept.
RM_UpdateTradeHistory(trade_history, pnl) ==
    LET h == Append(trade_history, pnl) IN
      IF Len(h) > HistoryLimit THEN SubSeq(h, Len(h) - HistoryLimit + 1, Len(h)) ELSE h

\* _check_recent_performance that counts the losses of a shorter history too.
RM_CheckRecentPerformanceMutAnyLength(trade_history) ==
    LET n == Len(trade_history)
        losing_trades == Cardinality({i \in 1..n : i >= n - 2 /\ trade_history[i] < 0})
    IN  ~(losing_trades >= 2)

\* _check_recent_performance: with 3 trades or more in the history, false
\* when 2 or more of the last 3 lost.
RM_CheckRecentPerformance(trade_history) ==
    IF Len(trade_history) >= 3
      THEN LET n == Len(trade_history)
               losing_trades == Cardinality({i \in (n - 2)..n : trade_history[i] < 0})
           IN  ~(losing_trades >= 2)
      ELSE TRUE

\* validate_trade(order, market_state) of a manager built with max_position
\* self_max_position.
RM_ValidateTrade(trade_history, pos, size, is_buy, mark_price, self_max_position) ==
    LET new_position == IF is_buy THEN pos + size ELSE pos - size IN
      IF size * mark_price < NotionalTenths(120) THEN FALSE
      ELSE IF Abs(new_position) > self_max_position THEN FALSE
      ELSE RM_CheckRecentPerformance(trade_history)

\* The positions, sizes and marks of the calls: 4.52 + 0.48 is 5.0, and 0.48
\* at 25 dollars is worth 12.0.
RiskPositions == {0, Size(200), -Size(200), Size(4520), -Size(4100)}
RiskSizes == {Size(400), Size(480), Size(3600), Size(5400)}
RiskMarks == {400, 2500}

\* The histories a run starts with: none or 98 winning trades, then up to
\* two trades of any outcome.
RiskHistories == {Wins(k) \o h : k \in {0, HistoryLimit - 2}, h \in SeqsUpTo(Pnls, 2)}

RiskInit ==
    /\ position \in RiskPositions
    /\ start_position = position
    /\ max_position \in MaxPositions
    /\ steps = 0
    /\ made = NoOperation
    /\ risk \in {[trade_history |-> h, call |-> NoRiskCall] : h \in RiskHistories}
    /\ tracker = PM_New

RiskCall(op, pos, size, is_buy, mark, answer) ==
    [op |-> op, position |-> pos, size |-> size, is_buy |-> is_buy, mark |-> mark,
     answer |-> answer]

CallRM_CheckPositionLimits ==
    /\ \E size \in RiskSizes, is_buy \in BOOLEAN :
         risk' = [risk EXCEPT !.call =
                     RiskCall("DynamicRiskManager.check_position_limits", position,
                              size, is_buy, 0,
                              RM_CheckPositionLimits(position, size, is_buy, max_position))]
    /\ UNCHANGED tracker
    /\ UNCHANGED <<loopVars, execVars, stratVars, cycleVars, timedVars>>

CallRM_ValidateTrade ==
    /\ \E size \in RiskSizes, is_buy \in BOOLEAN, mark \in RiskMarks :
         risk' = [risk EXCEPT !.call =
                     RiskCall("DynamicRiskManager.validate_trade", position,
                              size, is_buy, mark,
                              RM_ValidateTrade(risk.trade_history, position, size,
                                               is_buy, mark, max_position))]
    /\ UNCHANGED tracker
    /\ UNCHANGED <<loopVars, execVars, stratVars, cycleVars, timedVars>>

CallRM_UpdateTradeHistory ==
    /\ steps < MaxSteps
    /\ \E pnl \in Pnls :
         risk' = [trade_history |-> RM_UpdateTradeHistory(risk.trade_history, pnl),
                  call |-> RiskCall("DynamicRiskManager.update_trade_history",
                                    position, 0, FALSE, 0, TRUE)]
    /\ steps' = steps + 1
    /\ UNCHANGED <<position, max_position, start_position, made>>
    /\ UNCHANGED tracker
    /\ UNCHANGED <<loopVars, execVars, cycleVars, timedVars>>

RiskNext ==
    \/ CallRM_CheckPositionLimits
    \/ CallRM_ValidateTrade
    \/ CallRM_UpdateTradeHistory

\* update_position_state(market_state, entry_price): a change of more than
\* 0.001 is recorded; with a larger magnitude the entry price given, if any
\* (None and 0.0 are none), is kept, otherwise a position of zero clears it.
PM_UpdatePositionState(pm, current_position, entry_price) ==
    IF Abs(current_position - pm.last_position_size) > Size(1)
      THEN [pm EXCEPT
              !.position_entry_price =
                  IF Abs(current_position) > Abs(pm.last_position_size)
                    THEN (IF entry_price # NoPrice THEN entry_price ELSE @)
                  ELSE IF current_position = 0 THEN NoPrice
                  ELSE @,
              !.last_position_size = current_position]
      ELSE pm

\* The positions a snapshot may show, and the entry prices the exchange
\* reports for the position found at start.
TrackPositions ==
    {0, Size(1), Size(2), Size(1000), Size(2000), Size(3000),
     -Size(1), -Size(2), -Size(1000), -Size(2000), -Size(3000)}
EntryPrices == {NoPrice, 10000, 12000}

\* TradingEngine._setup_initial_state: with a position on the account and a
\* snapshot, update_position_state is given the entry price of the account.
EngineSetupPosition ==
    /\ ~tracker.started
    /\ \E pos \in TrackPositions, entry_price \in EntryPrices, got \in {"none", "state"} :
         LET pm == IF pos # 0 /\ got = "state"
                     THEN [PM_UpdatePositionState(tracker, pos, entry_price) EXCEPT
                             !.observed = pos]
                     ELSE tracker
         IN  tracker' = [pm EXCEPT !.started = TRUE]
    /\ UNCHANGED risk
    /\ UNCHANGED <<loopVars, execVars, stratVars, cycleVars, timedVars>>

\* TradingEngine.trading_loop: every cycle with a valid snapshot gives its
\* position to update_position_state, without an entry price.
EngineUpdatePosition ==
    /\ tracker.started
    /\ tracker.cycles < MaxSteps
    /\ \E pos \in TrackPositions :
         tracker' = [PM_UpdatePositionState(tracker, pos, NoPrice) EXCEPT
                       !.observed = pos, !.cycles = @ + 1]
    /\ UNCHANGED risk
    /\ UNCHANGED <<loopVars, execVars, stratVars, cycleVars, timedVars>>

TrackNext ==
    \/ EngineSetupPosition
    \/ EngineUpdatePosition



(***************************************************************************)
(* Specifications.                                                         *)
(***************************************************************************)
InitLoop == LoopInit /\ ExecInit /\ StratIdle /\ CycleIdle /\ TimedIdle /\ UnitIdle

SpecLoop == InitLoop /\ [][LoopNext]_vars

InitExec == LoopInit /\ program = "agent" /\ ExecInit /\ StratIdle /\ CycleIdle /\ TimedIdle /\ UnitIdle

SpecExec == InitExec /\ [][ExecNext]_vars

SpecBatch == InitExec /\ [][BatchNext]_vars

InitStrat == LoopInit /\ program = "agent" /\ ExecInit /\ StratInit /\ CycleIdle /\ TimedIdle /\ UnitIdle

SpecStrat == InitStrat /\ [][StratNext]_vars

SpecCycle == InitExec /\ [][CycleNext]_vars
SpecGov == InitExec /\ [][GovNext]_vars
SpecMom == InitExec /\ [][MomNext]_vars
SpecReduce == InitExec /\ [][ReduceNext]_vars
InitFetch == LoopInit /\ program = "agent" /\ ExecInit /\ StratIdle /\ FetchInit /\ TimedIdle /\ UnitIdle
SpecFetch == InitFetch /\ [][FetchNext]_vars
InitRisk == LoopInit /\ program = "agent" /\ ExecInit /\ RiskInit /\ CycleIdle /\ TimedIdle
SpecRisk == InitRisk /\ [][RiskNext]_vars
SpecTrack == InitExec /\ [][TrackNext]_vars

(***************************************************************************)
(* Claims about the order executors, checked under SpecExec and SpecBatch. *)
(***************************************************************************)
Items == {last.items[i] : i \in 1..Len(last.items)}

\* The operations that take an order and may submit it.
ExecutingOps ==
    {"AgentSmith.execute_and_verify_order", "AgentSmith.execute_perp_orders",
     "OrderManager.execute_and_verify_order", "OrderManager.execute_single_order",
     "OrderManager.execute_perp_orders"}

\* C1: when the fills query made after a submission returns as many fills as
\* the count taken before it, the result is not a success: it is "No fill
\* detected" from the executors, and (False, 0.0) from verify_order_fill.
C1_UnchangedCountIsNoFill ==
    \A o \in Items :
        (o.before # -1 /\ o.after = o.before) =>
            /\ ~o.success
            /\ o.fill_value = 0
            /\ o.msg = (IF last.op = "AgentSmith.verify_order_fill"
                          THEN "none" ELSE "No fill detected")

\* AgentSmith.execute_and_verify_order submitted an order, read 10 fills
\* before and 10 after, and answered "No fill detected".
C1_Witness ==
    /\ last.op = "AgentSmith.execute_and_verify_order"
    /\ \E o \in Items :
         /\ o.submitted.call = "order"
         /\ o.before = 10 /\ o.after = 10
         /\ o.msg = "No fill detected"

\* C2: when execute_and_verify_order has submitted an order with status ok
\* and read more fills after the submission than before it, it returns
\* success with the fill value size x price of the newest fill.
C2_NewFillIsSuccess ==
    (last.op \in {"AgentSmith.execute_and_verify_order",
                  "OrderManager.execute_and_verify_order"}) =>
        \A o \in Items :
            (o.before # -1 /\ o.after > o.before) =>
                /\ o.success
                /\ o.fill_value = o.newest.sz * o.newest.px

\* C3: an order worth less than 12 dollars at its own price, or priced more
\* than 10% away from the mark price, is refused by every executing
\* operation without any remote call made for it.
C3_RejectedLocally ==
    (last.op \in ExecutingOps /\ last.mark > 0) =>
        \A o \in Items :
            (\/ o.order.size * o.order.price < NotionalTenths(120)
             \/ Abs(o.order.price - last.mark) * 10 > last.mark) =>
                (~o.success /\ o.remote = <<>> /\ o.submitted = NoSubmit)

\* C4: no exception leaves an executor.
C4_NothingRaised ==
    \A o \in Items : o.raised = "none"

\* C13: an order of a batch given to execute_perp_orders that passes
\* validation is submitted to the exchange exactly once in that call.
C13_ValidOrderSubmittedOnce ==
    /\ last.op = "OrderManager.execute_perp_orders" =>
           \A o \in Items :
               OM_ValidateOrder(o.order, o.order.price) => Len(o.remote) = 1
    /\ last.op = "AgentSmith.execute_perp_orders" =>
           \A o \in Items :
               AS_ValidateAndAdjustOrder(o.order, last.mark).valid => Len(o.remote) = 1

(***************************************************************************)
(* Claims about the strategies, checked under SpecStrat.                   *)
(***************************************************************************)
MadeOrders == {made.orders[i] : i \in 1..Len(made.orders)}

MadeRequests == {made.requests[i] : i \in 1..Len(made.requests)}

\* C5: a run that starts with |position| <= max_position and in which every
\* order approved by check_position_limits is filled in full keeps
\* |position| <= max_position, except in a cycle that answers a breach with a
\* reduce-only order.
C5_PositionWithinLimit ==
    Abs(start_position) <= max_position =>
        \/ Abs(position) <= max_position
        \/ \E o \in MadeOrders : o.reduce_only

\* C6: a reduce-only order that is emitted or submitted is a SELL on a long
\* position and a BUY on a short one, and there is none on a flat position.
C6_ReduceOnlyOpposesPosition ==
    \A r \in {o \in MadeOrders : o.reduce_only} \cup MadeRequests :
        /\ made.position # 0
        /\ r.side = "SELL" => made.position > 0
        /\ r.side = "BUY" => made.position < 0

C6_Witness ==
    /\ made.op = "AgentSmith.calculate_orders"
    /\ made.position > max_position
    /\ \E o \in MadeOrders : o.reduce_only /\ o.side = "SELL"

\* The strategies' calculate_orders.
CalculateOps ==
    {"EnhancedPerpMarketMaker.calculate_orders", "AgentSmith.calculate_orders"}

\* An order that answers a breach of the limit by position pos at price
\* mark: reduce-only, against the position, of 10% of |pos| (rounded to 3
\* decimals) or, when larger, of a size worth between 12 and 13 dollars, at
\* a price 0.1% to 0.3% on the adverse side of the mark.
IsBreachOrder(o, pos, mark) ==
    LET tenth == RoundSize(Abs(pos), 20000, 3) IN
      /\ o.reduce_only
      /\ o.side = (IF pos > 0 THEN "SELL" ELSE "BUY")
      /\ o.size >= tenth
      /\ o.size * mark >= NotionalTenths(120)
      /\ o.size > tenth => o.size * mark <= NotionalTenths(130)
      /\ IF pos > 0
           THEN o.price * 1000 >= mark * 997 /\ o.price * 1000 <= mark * 999
           ELSE o.price * 1000 >= mark * 1001 /\ o.price * 1000 <= mark * 1003

\* C33: a calculate_orders called with |position| > max_position returns
\* exactly one order, the reduce-only order that answers the breach, and so
\* neither a momentum order nor quotes.
C33_BreachYieldsOneReduceOrder ==
    (made.op \in CalculateOps /\ Abs(made.position) > max_position) =>
        /\ Len(made.orders) = 1
        /\ IsBreachOrder(made.orders[1], made.position, made.mark)

\* C34: check_position_limits answers true for every order on the side
\* opposite to a position that is not zero, whatever its size; for every
\* other order it answers false exactly when |position + size| (buy) or
\* |position - size| (sell) exceeds max_position.
C34_LimitCheckAnswer ==
    risk.call.op = "DynamicRiskManager.check_position_limits" =>
        LET c == risk.call
            opposes == (c.position > 0 /\ ~c.is_buy) \/ (c.position < 0 /\ c.is_buy)
            resulting == IF c.is_buy THEN c.position + c.size ELSE c.position - c.size
        IN  IF opposes THEN c.answer
            ELSE c.answer = ~(Abs(resulting) > max_position)

\* A sell of 5.4 against a long position of 0.2 under a maximum of 5.0 was
\* approved; it would leave a position of -5.2.
C34_Witness ==
    /\ risk.call.op = "DynamicRiskManager.check_position_limits"
    /\ risk.call.position = Size(200)
    /\ risk.call.size = Size(5400)
    /\ ~risk.call.is_buy
    /\ max_position = Size(5000)
    /\ risk.call.answer

\* The losses among the last 3 trades of a history, or among all of them
\* when it holds fewer.
RecentLosses(trade_history) ==
    LET n == Len(trade_history) IN
      Cardinality({i \in Max(1, n - 2)..n : trade_history[i] < 0})

C37_ReducesToSeventyPercent ==
    (made.op = "AgentSmith.check_position_status" /\ made.requests # NoRequests) =>
        LET left == Abs(made.position) - made.requests[1].sz
            target == (max_position * 7) \div 10
        IN  /\ left >= target - Size(5)
            /\ left <= target + Size(5)

\* C37 as amended: check_position_status requests a reduction only at a
\* usage of 0.85 or more, and then one market close; its size is the
\* reduction to 0.70 of max_position when that is worth 12.1 dollars or
\* more at the mark price, and otherwise the smallest size worth 12.1
\* dollars, either within half a hundredth; a full fill moves |position|
\* down by that size.
C37_ReducesToTargetOrMinimum ==
    (made.op = "AgentSmith.check_position_status" /\ made.requests # NoRequests) =>
        LET sz == made.requests[1].sz
            needed == Abs(made.position) - (max_position * 7) \div 10
        IN  /\ Abs(made.position) * 100 >= max_position * 85
            /\ Len(made.requests) = 1
            /\ made.requests[1].call = "market_close"
            /\ IF needed * made.mark >= NotionalTenths(121)
                 THEN sz >= needed - Size(5) /\ sz <= needed + Size(5)
                 ELSE /\ (sz + Size(5)) * made.mark >= NotionalTenths(121)
                      /\ (sz - Size(5)) * made.mark < NotionalTenths(121)
            /\ made.returned =>
                  Abs(position) = Max(0, Abs(made.position) - sz)

\* A position of 4.3 under a maximum of 5.0, reduced at 25 dollars: the fill
\* left 3.5.
C37_Witness ==
    /\ made.op = "AgentSmith.check_position_status"
    /\ made.position = Size(4300)
    /\ max_position = Size(5000)
    /\ made.mark = 2500
    /\ made.requests # NoRequests
    /\ made.returned
    /\ position = Size(3500)

\* C38: when no momentum order is made (the orders are not the one order of
\* 1.5 base sizes), EnhancedPerpMarketMaker.calculate_orders emits two orders
\* at most, one BUY and one SELL at most, each of size base_size, each marked
\* post-only, and each approved by check_position_limits for its side.
C38_QuotesArePostOnly ==
    LET base_size == EMM_CalculateBaseSize(made.mark)
        momentum_made == /\ Len(made.orders) = 1
                         /\ made.orders[1].size = (base_size * 3) \div 2
    IN  (made.op = "EnhancedPerpMarketMaker.calculate_orders" /\ ~momentum_made) =>
           /\ Len(made.orders) <= 2
           /\ Cardinality({i \in 1..Len(made.orders) : made.orders[i].side = "BUY"}) <= 1
           /\ Cardinality({i \in 1..Len(made.orders) : made.orders[i].side = "SELL"}) <= 1
           /\ \A o \in MadeOrders :
                /\ o.size = base_size
                /\ o.post_only
                /\ RM_CheckPositionLimits(made.position, o.size, o.side = "BUY",
                                          max_position)

\* C39: over the positions the trading loop gives to update_position_state,
\* the entry price is set whenever the magnitude of the observed position
\* grows from zero or from a smaller magnitude of the same sign, and it is
\* cleared whenever the observed position is exactly zero.
C39_EntryPriceTracksPosition ==
    [][EngineUpdatePosition =>
         LET cur == tracker'.observed
             prev == tracker.observed
         IN  /\ (Abs(cur) > Abs(prev) /\ cur * prev >= 0) =>
                    tracker'.position_entry_price # NoPrice
             /\ cur = 0 => tracker'.position_entry_price = NoPrice]_vars

\* The cycles a program can make on a snapshot, and two cycles that end the
\* same way: from the same answer of the provider, through the same branch
\* of the loop.
CyclesOf(prog) ==
    IF prog = "agent"
    THEN {AS_TradingLoop(got, ms, decimals, reducer_answer, should_trade, max_position) :
            got \in {"state"}, ms \in AgentSnapshots, decimals \in SizeDecimals,
            reducer_answer \in {"filled", "error", "resting"}, should_trade \in BOOLEAN}
    ELSE {TE_TradingCycle(got, ms, should_trade, signal, trade_momentum, max_position) :
            got \in {"state"}, ms \in Snapshots, should_trade \in BOOLEAN,
            signal \in {"none", "long", "short"}, trade_momentum \in BOOLEAN}

EndAlike(c, d) ==
    /\ c.program = d.program /\ c.got = d.got /\ c.raised = d.raised
    /\ c.checked = d.checked /\ c.over_limit = d.over_limit /\ c.reduced = d.reduced
    /\ (c.handed = <<>>) = (d.handed = <<>>)

\* C40: of two cycles that end the same way, the one with the higher
\* position usage sleeps no longer than the one with the lower usage.
C40_SleepShorterAtHigherUsage ==
    (cyc.program # "none" /\ cyc.got = "state") =>
        \A d \in CyclesOf(cyc.program) :
            (EndAlike(cyc, d) /\ Abs(d.snapshot.position) < Abs(cyc.snapshot.position))
                => cyc.slept <= d.slept

\* C22: a reduction that is requested asks for a size between 10% (within
\* half a hundredth, for the rounding) and 20% of the position held, and for
\* less than the whole position.
C22_ReductionIsFraction ==
    \A r \in MadeRequests :
        /\ (r.sz + Size(5)) * 10 >= Abs(made.position)
        /\ r.sz * 5 <= Abs(made.position)
        /\ r.sz < Abs(made.position)

\* C24: a call of execute_position_reduction on a position submits the
\* reduce-only IOC limit order first and the market order after it or not
\* at all, each at most once.
C24_PrimaryThenFallback ==
    (/\ made.op = "EnhancedPerpMarketMaker.execute_position_reduction"
     /\ made.position # 0)
    => /\ Len(made.requests) \in 1..2
       /\ made.requests[1].call = "order"
       /\ made.requests[1].reduce_only
       /\ Len(made.requests) = 2 => made.requests[2].call = "market_close"

\* C7: every order that calculate_orders returns and every reduction that the
\* reducer or execute_position_reduction requests is worth 12.0 or more
\* (size times price, the mark for a market request).
C7_MinimumNotional ==
    /\ \A o \in MadeOrders : o.size * o.price >= NotionalTenths(120)
    /\ \A r \in MadeRequests : r.sz * r.px >= NotionalTenths(120)

(***************************************************************************)
(* Claims about the trading cycle, checked under SpecCycle.                *)
(***************************************************************************)
\* C11: a cycle whose position check signals over-limit runs the reduction
\* and does not call the strategy's calculate_orders nor hand any strategy
\* order to the executor, whether the reduction succeeds or not.
C11_ReductionExcludesStrategy ==
    cyc.over_limit => (cyc.reduction /\ ~cyc.calc /\ cyc.handed = <<>>)

\* C12: a cycle with a valid snapshot whose position usage is below the
\* reduction threshold (a flat position included) and whose strategy is
\* willing to trade calls calculate_orders and hands its orders to the
\* executor.
C12_StrategyRunsBelowThreshold ==
    (/\ cyc.got = "state"
     /\ cyc.program = "engine" => MDM_ValidateMarketData(cyc.snapshot)
     /\ Abs(cyc.snapshot.position) * 10 < max_position * 8
     /\ cyc.should_trade)
    => (cyc.calc /\ cyc.handed = cyc.orders)

\* C36: a cycle that reaches its position check with a usage |position| /
\* max_position of 0.80 or more, exactly 0.80 included, attempts a position
\* reduction.
C36_ReductionFromEightyPercent ==
    (/\ cyc.got = "state"
     /\ cyc.program = "engine" => MDM_ValidateMarketData(cyc.snapshot)
     /\ Abs(cyc.snapshot.position) * 10 >= max_position * 8)
    => cyc.reduction

(***************************************************************************)
(* Claims about the run loops, checked under SpecLoop.                     *)
(***************************************************************************)

\* C8: after 5 consecutive whole-cycle failures, with no successful cycle in
\* between, the trading loop has stopped itself and runs no further cycle.
C8_FailStop ==
    failStreak >= max_consecutive_errors => pc # "cycle"

\* C9: when the consecutive-error ceiling is reached the engine shuts down
\* gracefully: the cancel-all has been started, the loop is stopped, no
\* exception leaves run(), and a cancel-all that raised was logged.
C9_GracefulShutdown ==
    (program = "engine" /\ consecutive_errors >= max_consecutive_errors) =>
        /\ cancelAllCalled
        /\ ~is_running
        /\ pc \in {"cancelling", "loop_head", "exited"}
        /\ escaped = "none"
        /\ (cancelRaised => cancelErrLogged)

\* The engine reached the ceiling, its cancel-all raised, and run() returned.
C9_Witness ==
    /\ program = "engine"
    /\ consecutive_errors >= max_consecutive_errors
    /\ pc = "exited"
    /\ ~interrupted
    /\ cancelRaised
    /\ cancelErrLogged

\* C10: once a loop that was interrupted after its first cycle began has
\* exited, a cancel-all of the asset's open orders was attempted and no
\* exception left run().
C10_InterruptCancels ==
    (interrupted /\ cycles >= 1 /\ pc = "exited") =>
        (cancelAllCalled /\ escaped = "none")

\* C27: a cycle of the engine that is skipped, because its snapshot is None
\* or fails validation, is not fatal by itself and counts toward the
\* consecutive-error ceiling: it adds one to consecutive_errors, the loop
\* stays running below the ceiling, and the loop is stopped at the ceiling.
C27_SkippedCycleCounts ==
    [][EngineCycleSkipped =>
         /\ consecutive_errors' = consecutive_errors + 1
         /\ is_running' = ~HandleErrorStops(consecutive_errors + 1)]_vars

\* The reasons can_trade gives for a refusal.
Refusals ==
    {"Rate limit pause", "Minimum wait not met", "Per-minute limit reached"}

\* C17: an executor that is called while the governor's check refuses
\* submits nothing: OrderManager.execute_single_order and
\* OrderManager.execute_and_verify_order make no submission for their order,
\* and AgentSmith.execute_perp_orders makes none for any order of its batch.
\* (The two OrderManager calls leave the governor as it is; the second one
\* sleeps o.slept seconds after a submission.)
C17_RefusedSubmitsNothing ==
    /\ last.op = "OrderManager.execute_single_order" =>
         \A o \in Items :
            RL_CanTrade(rl, now) \in Refusals => o.submitted = NoSubmit
    /\ last.op = "OrderManager.execute_and_verify_order" =>
         \A o \in Items :
            RL_CanTrade(rl, now - Secs(o.slept)) \in Refusals =>
                o.submitted = NoSubmit
    /\ last.op = "AgentSmith.execute_perp_orders" =>
         (last.blocked \in Refusals => last.items = <<>>)

\* C26: an executor whose submission is answered with the exchange's rate
\* limit message calls on_rate_limit_error once (one more rate limit hit,
\* one more consecutive failure), submits no further order of its batch and
\* raises nothing.
C26_ThrottleEscalatesOnce ==
    [][(\/ CallAS_ExecutePerpOrders
        \/ CallOM_ExecuteSingleOrder
        \/ CallOM_ExecuteAndVerifyOrder) =>
          \A i \in 1..Len(last'.items) :
             last'.items[i].msg = "rate limited" =>
                /\ rl'.rate_limit_hits = rl.rate_limit_hits + 1
                /\ rl'.consecutive_fails = rl.consecutive_fails + 1
                /\ i = Len(last'.items)
                /\ last'.items[i].raised = "none"]_vars

\* The number of orders of a call's outcome that were submitted to the exchange.
Submissions(items) ==
    Cardinality({i \in 1..Len(items) : items[i].submitted # NoSubmit})

\* C28: every submission an executor makes is recorded in the governor by one
\* on_request: an executor call adds the number of its submissions to
\* request_count and, all calls made here lying in the governor's first
\* minute, to requests_this_minute.
C28_SubmissionsAreCounted ==
    [][ExecNext =>
         /\ rl'.request_count = rl.request_count + Submissions(last'.items)
         /\ rl'.requests_this_minute =
               rl.requests_this_minute + Submissions(last'.items)]_vars

\* C31: a submission of AgentSmith.execute_and_verify_order carries the
\* order type and builder marker the governor recommends at that time (the
\* call leaves the governor as it is): add-liquidity-only without builder
\* while consecutive_fails is 0 and severe mode is off, immediate-or-cancel
\* with builder otherwise.
C31_SubmitsAsRecommended ==
    last.op = "AgentSmith.execute_and_verify_order" =>
        \A o \in Items :
           o.submitted # NoSubmit => AS_OrderParams(rl) = RL_GetOrderParams(rl)

\* C32: AgentSmith.execute_perp_orders submits each order as it was created:
\* the size and the side sent to the exchange are those of the Order it was
\* given.
C32_SubmittedAsCreated ==
    last.op = "AgentSmith.execute_perp_orders" =>
        \A o \in Items :
           o.submitted # NoSubmit =>
              /\ o.submitted.sz = o.order.size
              /\ o.submitted.is_buy = (o.order.side = "BUY")

\* C18: a call of an executor's verify step that finds the fill count
\* increased is followed by a volume_traded that has grown by the notional of
\* the newest fill, and no step lowers volume_traded.
C18_FillFeedsVolume ==
    [][/\ rl'.volume_traded >= rl.volume_traded
       /\ (\/ CallAS_ExecuteAndVerifyOrder
           \/ CallAS_VerifyOrderFill
           \/ CallOM_ExecuteAndVerifyOrder
           \/ CallOM_VerifyOrderFill) =>
             \A i \in 1..Len(last'.items) :
                LET o == last'.items[i] IN
                  (o.before >= 0 /\ o.after > o.before) =>
                     rl'.volume_traded =
                        rl.volume_traded + o.newest.sz * o.newest.px]_vars

(***************************************************************************)
(* Claims about the snapshot providers.                                    *)
(***************************************************************************)

Providers ==
    {"MarketDataManager.get_perp_market_state", "AgentSmith.get_perp_market_state"}

\* A fetch has a problem when a source's last word is an exception (the
\* only attempt of MarketDataManager, every attempt of AgentSmith), or when
\* MarketDataManager gets no account state or no book with a bid and an ask.
FetchProblem ==
    \/ \E answers \in {cyc.mids, cyc.users, cyc.books} :
          /\ answers # <<>>
          /\ \A i \in 1..Len(answers) : answers[i] = "raise"
    \/ /\ cyc.program = "MarketDataManager.get_perp_market_state"
       /\ cyc.users[1] = "none" \/ cyc.books[1] # "ok"

\* C19: a provider that has run has raised nothing, and has returned None
\* when the fetch had a problem; a loop that got None has checked nothing,
\* reduced nothing, derived no order, raised nothing and slept.
C19_ProviderReturnsNone ==
    /\ (cyc.program \in Providers /\ cyc.got # "pending") =>
          /\ cyc.got # "raise"
          /\ FetchProblem => cyc.got = "none"
    /\ (cyc.program \in {"engine", "agent"} /\ cyc.got = "none") =>
          /\ ~cyc.checked /\ ~cyc.reduction /\ ~cyc.calc
          /\ cyc.handed = <<>> /\ cyc.requests = NoRequests
          /\ cyc.raised = "none"
          /\ cyc.slept > 0

\* A snapshot with a crossed book or a price that is not positive.
Inconsistent(ms) ==
    \/ ms.best_bid > ms.best_ask
    \/ ms.best_bid <= 0
    \/ ms.best_ask <= 0
    \/ ms.mark_price <= 0

\* C20: a cycle of the engine that got a snapshot with best_bid > best_ask
\* or with a bid, ask or mark price that is not positive has made no
\* position check, started no reduction and derived or handed on no order.
C20_InconsistentSnapshotRejected ==
    (/\ cyc.program = "engine"
     /\ cyc.got = "state"
     /\ Inconsistent(cyc.snapshot))
    => /\ ~cyc.checked /\ ~cyc.over_limit /\ ~cyc.reduction /\ ~cyc.calc
       /\ cyc.requests = NoRequests
       /\ cyc.orders = <<>> /\ cyc.handed = <<>>

(***************************************************************************)
(* Claims about the rate-limit governor.                                   *)
(***************************************************************************)

\* The requests of the minute window that holds time t: a window that
\* started 60 s ago or earlier is over, and the new one holds none yet.
RequestsInCurrentWindow(h, t) ==
    IF t - h.minute_start_time >= Secs(MinuteWindowSecs) THEN 0
    ELSE h.requests_this_minute

\* The three rules of the governor at time t.
RulesHold(h, t) ==
    /\ h.pause_until = NoPause \/ t >= h.pause_until
    /\ t - h.last_request_time >= h.min_wait_time
    /\ RequestsInCurrentWindow(h, t) < 1000

\* C14: in every state, check_rate_limits and can_trade each answer OK if
\* and only if there is no active cooldown, min_wait_time has elapsed since
\* last_request_time, and the current minute window holds fewer than 1000
\* requests.
C14_CheckIffRules ==
    /\ RL_CheckRateLimits(rl, now).answer = "OK" <=> RulesHold(rl, now)
    /\ RL_CanTrade(rl, now) = "OK" <=> RulesHold(rl, now)

\* The cooldown of the n-th consecutive rate-limit failure, in seconds.
CooldownTier(n) ==
    IF n \in 1..2 THEN 5
    ELSE IF n \in 3..4 THEN 15
    ELSE IF 5 * n < 30 THEN 5 * n ELSE 30

\* C15: right after a rate-limit error the cooldown ends 5 s from now when
\* this is failure 1 or 2 since the last success, 15 s for failure 3 or 4,
\* min(30, 5n) s from failure 5 on, and never more than 30 s from now; a
\* success starts the count of consecutive failures again.
C15_CooldownTiers ==
    [][/\ GovOnRateLimitError =>
            /\ rl'.consecutive_fails = rl.consecutive_fails + 1
            /\ rl'.pause_until = now + Secs(CooldownTier(rl'.consecutive_fails))
            /\ rl'.pause_until <= now + Secs(30)
       /\ GovOnSuccess => rl'.consecutive_fails = 0]_vars

\* The seventh failure in a row, made after an earlier success: 5n is 35 s
\* and the cooldown is 30 s.
C15_Witness ==
    /\ last.op = "RateLimitHandler.on_rate_limit_error"
    /\ rl.consecutive_fails = 7
    /\ rl.pause_until = now + Secs(30)
    /\ rl.volume_traded > 0

\* The floor of min_wait_time, 1 s, and its ceiling: no method raises
\* min_wait_time, so the ceiling is the 1 s it starts with.
MinWaitFloor == Secs(1)
MinWaitCeiling == Secs(1)

\* C16: in every state of the governor min_wait_time lies between its floor
\* of 1 s and its ceiling, whatever the number of failures, and every
\* on_success leaves it at the larger of 1 s and its old value less 0.5 s.
C16_MinWaitBounded ==
    /\ [](MinWaitFloor <= rl.min_wait_time /\ rl.min_wait_time <= MinWaitCeiling)
    /\ [][GovOnSuccess =>
            rl'.min_wait_time = Max(MinWaitFloor, rl.min_wait_time - 1)]_vars

\* A success reported after seven failures in a row and after requests.
C16_Witness ==
    /\ last.op = "RateLimitHandler.on_success"
    /\ rl.rate_limit_hits = 7
    /\ rl.consecutive_fails = 0
    /\ rl.request_count > 0
    /\ rl.min_wait_time = MinWaitFloor

\* C29: on_success sets consecutive_fails to 0, leaves severe mode and
\* records the current time as last_request_time, so that both checks of the
\* governor made right after it, less than min_wait_time later, refuse: by
\* the minimum-wait rule, or by the pause rule that is tested before it.
C29_SuccessRestartsMinWait ==
    [][GovOnSuccess =>
         /\ rl'.consecutive_fails = 0
         /\ ~rl'.severe_mode
         /\ rl'.last_request_time = now
         /\ RL_CanTrade(rl', now) \in {"Rate limit pause", "Minimum wait not met"}
         /\ RL_CheckRateLimits(rl', now).answer \in
               {"Rate limit pause", "Minimum wait not met"}]_vars

\* C30: the per-minute count is a tumbling window of 60 s: a
\* check_rate_limits made 60 s or more after the window's start sets
\* requests_this_minute to 0 and starts the window anew, and neither check of
\* the governor, made that late, answers "Per-minute limit reached".
C30_WindowTumbles ==
    [][/\ GovCheckRateLimits =>
            (now - rl.minute_start_time >= Secs(MinuteWindowSecs) =>
                 /\ rl'.requests_this_minute = 0
                 /\ rl'.minute_start_time = now)
       /\ (GovCheckRateLimits \/ GovCanTrade) =>
            (now - rl.minute_start_time >= Secs(MinuteWindowSecs) =>
                 last'.blocked # "Per-minute limit reached")]_vars

\* C25: severe mode is on after sustained failures: with MaxHits rate-limit
\* errors in a row and no success in between (the longest run made here),
\* severe_mode is true.
C25_SevereModeEngages ==
    rl.consecutive_fails >= MaxHits => rl.severe_mode

(***************************************************************************)
(* Claims about the throttles over time.                                   *)
(***************************************************************************)

\* C21: no interval of one hour holds more than max_momentum_trades momentum
\* orders: of any max_momentum_trades + 1 momentum orders in a row, the last
\* was made an hour or more after the first.
C21_MomentumThrottle ==
    \A i \in 1..Len(mom.emitted) :
       i + max_momentum_trades <= Len(mom.emitted) =>
          mom.emitted[i + max_momentum_trades] - mom.emitted[i] >= Secs(3600)

\* C23: two reductions that the position reducer submits one after the other
\* are 45 s or more apart.
C23_ReductionCooldown ==
    \A i \in 1..Len(reducer.reductions) :
       i + 1 <= Len(reducer.reductions) =>
          reducer.reductions[i + 1] - reducer.reductions[i] >= Secs(45)

====
